---- MODULE Spec2Model ----
(***************************************************************************)
(* ccweb: the PTY session registry (server/terminal.ts), its wire codec,   *)
(* the connection handler (server/index.ts, server/auth.ts), the pane      *)
(* layout tree (lib/tileLayout.ts) and the pane/tab orchestrator           *)
(* (App.tsx), as one state machine with one specification per subsystem.   *)
(***************************************************************************)
EXTENDS Integers, Sequences, FiniteSets, TLC

(***************************************************************************)
(* Bounds of the model.                                                    *)
(***************************************************************************)
\* session ids the registry is driven with: 1..MaxSessionId
MaxSessionId == 2
\* WebSocket objects (one per connection): 1..MaxEndpoints
MaxEndpoints == 2
\* PTY processes that can be spawned in one run: 1..MaxProcs
MaxProcs == 2
\* frames a process holds as written input before writes are cut off
MaxInput == 1
\* output chunks counted per endpoint
MaxSent == 1
\* the clock runs to MaxPeriods * ORPHAN_TIMEOUT + MaxJitter
MaxPeriods == 1
\* milliseconds the clock may stand past a multiple of ORPHAN_TIMEOUT
MaxJitter == 1
\* leaves of the largest layout tree
MaxLeaves == 3
\* leaf ids the tree functions are applied to: 1..MaxTreeId
MaxTreeId == 3
\* ids crypto.randomUUID() hands out: 1..MaxUuid
MaxUuid == 7
\* handler calls App makes in one run
MaxCalls == 4

\* handler calls in a run of the drop specification
MaxDropCalls == 3

(***************************************************************************)
(* Program constants.                                                      *)
(***************************************************************************)
ORPHAN_TIMEOUT == 5 * 60 * 1000

DefaultCols == 80

DefaultRows == 24

SessionIds == 1..MaxSessionId

Endpoints == 1..MaxEndpoints

Pids == 1..MaxProcs

\* session.ws = null
NoWs == 0

\* an endpoint attach() was never called with
NoSession == 0

NoPid == 0

\* s.ws.close(1000, 'Process exited')
ProcessExited == 1000

\* ws.close(4000, 'Missing session ID')
MissingSessionId == 4000

\* ws.close(4001, 'Unauthorized')
Unauthorized == 4001

\* the server has sent the endpoint no close status
NoStatus == 0

MaxTime == MaxPeriods * ORPHAN_TIMEOUT + MaxJitter

(***************************************************************************)
(* JSON values and frames.  A frame is the text of one inbound message:    *)
(* its first character, whether the whole text is well-formed JSON, and    *)
(* (when it is) the members of the object it denotes, in textual order.    *)
(***************************************************************************)
Num(n, d) == [t |-> "number", num |-> n, den |-> d, str |-> ""]

Str(s) == [t |-> "string", num |-> 0, den |-> 1, str |-> s]

Undefined == [t |-> "undefined", num |-> 0, den |-> 1, str |-> ""]

Member(k, v) == [key |-> k, val |-> v]

TextFrame(first) == [head |-> first, json |-> FALSE, members |-> <<>>]

ObjectFrame(ms) == [head |-> "{", json |-> TRUE, members |-> ms]

\* JSON.stringify({type: ty, cols: c, rows: r})
ControlFrame(ty, c, r) ==
    ObjectFrame(<<Member("type", Str(ty)), Member("cols", c), Member("rows", r)>>)

NoFrame == [head |-> "", json |-> FALSE, members |-> <<>>]

\* typeof v === 'number'
IsNumber(v) == v.t = "number"

IsPositive(v) == v.t = "number" /\ v.num > 0

IsInteger(v) == v.t = "number" /\ v.num % v.den = 0

IsPositiveInteger(v) == IsPositive(v) /\ IsInteger(v)

\* no frame is taken for a control candidate
StartsWithBrace_Never(data) == FALSE

\* data.startsWith('{')
StartsWithBrace(data) == data.head = "{"

\* JSON.parse(data) throws a SyntaxError
ParseThrows(data) == ~data.json

\* ctrl[key] of the parsed object: the last member of that name, else undefined
Prop(data, key) ==
    LET idx == {i \in 1..Len(data.members) : data.members[i].key = key}
    IN  IF idx = {} THEN Undefined
        ELSE data.members[CHOOSE i \in idx : \A j \in idx : j <= i].val

\* ctrl.type === 'resize' && typeof ctrl.cols === 'number' && typeof ctrl.rows === 'number'
IsResizeCtrl(data) ==
    /\ Prop(data, "type") = Str("resize")
    /\ IsNumber(Prop(data, "cols"))
    /\ IsNumber(Prop(data, "rows"))

\* s.pty.resize(cols, rows) throws: node-pty rejects an extent that is not
\* positive ("resizing must be done using positive cols and rows"), and the
\* try block of the handler catches what is thrown.
ResizeThrows(c, r) == ~(IsPositive(c) /\ IsPositive(r))

(***************************************************************************)
(* The pane layout tree (TileNode) and its pure functions.  A leaf id is a *)
(* string in the code and a number here; EmptyId is the empty string.      *)
(***************************************************************************)
Terminal(id) == [type |-> "terminal", terminalId |-> id]

Editor(id) == [type |-> "editor", filePath |-> id]

SplitNode(dir, l, r) == [type |-> "split", direction |-> dir, children |-> <<l, r>>]

\* null
Null == [type |-> "null"]

\* ''
EmptyId == 0

\* '__swap_placeholder__'
SwapPlaceholder == -1

Directions == {"horizontal", "vertical"}

leafId(node) ==
    IF node.type = "terminal" THEN node.terminalId
    ELSE IF node.type = "editor" THEN node.filePath
    ELSE Null

RECURSIVE existsInTile(_, _)
existsInTile(layout, id) ==
    IF layout.type = "split"
    THEN existsInTile(layout.children[1], id) \/ existsInTile(layout.children[2], id)
    ELSE leafId(layout) = id

RECURSIVE findInTile(_, _)
findInTile(layout, id) ==
    IF layout.type = "split"
    THEN LET l == findInTile(layout.children[1], id)
         IN  IF l # Null THEN l ELSE findInTile(layout.children[2], id)
    ELSE IF leafId(layout) = id THEN layout ELSE Null

RECURSIVE countLeaves(_)
countLeaves(layout) ==
    IF layout.type = "split"
    THEN countLeaves(layout.children[1]) + countLeaves(layout.children[2])
    ELSE 1

RECURSIVE replaceInTile(_, _, _)
replaceInTile(layout, id, replacement) ==
    IF layout.type = "split"
    THEN [layout EXCEPT !.children = <<replaceInTile(layout.children[1], id, replacement),
                                       replaceInTile(layout.children[2], id, replacement)>>]
    ELSE IF leafId(layout) = id THEN replacement ELSE layout

RECURSIVE removeFromTile(_, _)
\* a split that loses a child is kept, not replaced by the other child
removeFromTile_NoPromotion(layout, id) ==
    IF layout.type # "split"
    THEN IF leafId(layout) = id THEN Null ELSE layout
    ELSE LET l == removeFromTile(layout.children[1], id)
             r == removeFromTile(layout.children[2], id)
         IN  IF l = Null /\ r = Null THEN Null
             ELSE IF l = Null \/ r = Null THEN layout
             ELSE [layout EXCEPT !.children = <<l, r>>]

\* nothing is removed
removeFromTile_Keep(layout, id) == layout

\* only a child of the root is removed
removeFromTile_Shallow(layout, id) ==
    IF layout.type # "split"
    THEN IF leafId(layout) = id THEN Null ELSE layout
    ELSE IF layout.children[1].type # "split" /\ leafId(layout.children[1]) = id
         THEN layout.children[2]
         ELSE IF layout.children[2].type # "split" /\ leafId(layout.children[2]) = id
              THEN layout.children[1]
              ELSE layout

removeFromTile(layout, id) ==
    IF layout.type # "split"
    THEN IF leafId(layout) = id THEN Null ELSE layout
    ELSE LET l == removeFromTile(layout.children[1], id)
             r == removeFromTile(layout.children[2], id)
         IN  IF l = Null /\ r = Null THEN Null
             ELSE IF l = Null THEN r
             ELSE IF r = Null THEN l
             ELSE [layout EXCEPT !.children = <<l, r>>]

\* the placement is ignored and the new node always comes second
splitAtTileWithPlacement_After(layout, targetId, newNode, direction, placement) ==
    replaceInTile(layout, targetId,
                  SplitNode(direction,
                            IF findInTile(layout, targetId) # Null
                            THEN findInTile(layout, targetId) ELSE Terminal(targetId),
                            newNode))

splitAtTileWithPlacement(layout, targetId, newNode, direction, placement) ==
    LET found == findInTile(layout, targetId)
        targetNode == IF found # Null THEN found ELSE Terminal(targetId)
        splitNode == IF placement = "before"
                     THEN SplitNode(direction, newNode, targetNode)
                     ELSE SplitNode(direction, targetNode, newNode)
    IN  replaceInTile(layout, targetId, splitNode)

\* the new node is placed before the target
splitAtTile_Before(layout, targetId, newNode, direction) ==
    splitAtTileWithPlacement(layout, targetId, newNode, direction, "before")

splitAtTile(layout, targetId, newNode, direction) ==
    splitAtTileWithPlacement(layout, targetId, newNode, direction, "after")

\* the node of idB is put at idA and the node of idA is dropped
swapTiles_OneWay(layout, idA, idB) ==
    LET nodeA == findInTile(layout, idA)
        nodeB == findInTile(layout, idB)
    IN  IF nodeA = Null \/ nodeB = Null THEN layout
        ELSE replaceInTile(layout, idA, nodeB)

swapTiles(layout, idA, idB) ==
    LET nodeA == findInTile(layout, idA)
        nodeB == findInTile(layout, idB)
    IN  IF nodeA = Null \/ nodeB = Null THEN layout
        ELSE replaceInTile(
                 replaceInTile(replaceInTile(layout, idA, Terminal(SwapPlaceholder)), idB, nodeA),
                 SwapPlaceholder, nodeB)

RECURSIVE getAllLeafIds(_)
\* the second child's ids come first
getAllLeafIds_RightFirst(layout) ==
    IF layout.type = "split"
    THEN getAllLeafIds(layout.children[2]) \o getAllLeafIds(layout.children[1])
    ELSE IF leafId(layout) # EmptyId THEN <<leafId(layout)>> ELSE <<>>

getAllLeafIds(layout) ==
    IF layout.type = "split"
    THEN getAllLeafIds(layout.children[1]) \o getAllLeafIds(layout.children[2])
    ELSE IF leafId(layout) # EmptyId THEN <<leafId(layout)>> ELSE <<>>

(***************************************************************************)
(* The pane/tab orchestrator: the updater each handler of App passes to    *)
(* setWorkspaces, applied to the active workspace w.  w.uuid is the state  *)
(* of crypto.randomUUID(): the k-th id drawn is the number k, and the      *)
(* prefixes 'terminal::', 'editor::', 'preview::' and '<path>::' are left  *)
(* out.  A tab's file is its path.                                         *)
(***************************************************************************)
HasKey(m, k) == k \in DOMAIN m

Put(m, k, v) == [x \in DOMAIN m \cup {k} |-> IF x = k THEN v ELSE m[x]]

\* the key stays in the map
Drop_Nothing(m, k) == m

Drop(m, k) == [x \in DOMAIN m \ {k} |-> m[x]]

Min(S) == CHOOSE x \in S : \A y \in S : x <= y

Max(S) == CHOOSE x \in S : \A y \in S : y <= x

\* tabs.findIndex(tab => tab.id === tabId), counted from 1; 0 when absent
TabIndex(tabs, tabId) ==
    LET idx == {i \in 1..Len(tabs) : tabs[i].id = tabId}
    IN  IF idx = {} THEN 0 ELSE Min(idx)

\* the filter keeps every tab
TabsWithout_Nothing(tabs, tabId) == tabs

\* tabs.filter(tab => tab.id !== tabId)
TabsWithout(tabs, tabId) == SelectSeq(tabs, LAMBDA tab : tab.id # tabId)

\* tabs.findIndex(tab => tab.file.path === path), counted from 1; 0 when absent
PathIndex(tabs, path) ==
    LET idx == {i \in 1..Len(tabs) : tabs[i].path = path}
    IN  IF idx = {} THEN 0 ELSE Min(idx)

\* no tab is taken for a preview tab
PreviewIndex_None(tabs) == 0

\* tabs.findIndex(tab => !tab.pinned), counted from 1; 0 when absent
PreviewIndex(tabs) ==
    LET idx == {i \in 1..Len(tabs) : ~tabs[i].pinned}
    IN  IF idx = {} THEN 0 ELSE Min(idx)

\* the first of the tabs left becomes active
NextActiveTabId_First(activeTabId, tabId, tabIndex, nextTabs) ==
    IF activeTabId = tabId THEN nextTabs[1].id ELSE activeTabId

\* activeTabId === tabId ? (nextTabs[Math.max(0, tabIndex - 1)]?.id || nextTabs[0].id)
\*                       : activeTabId
NextActiveTabId(activeTabId, tabId, tabIndex, nextTabs) ==
    IF activeTabId = tabId
    THEN IF Max({1, tabIndex - 1}) <= Len(nextTabs)
         THEN nextTabs[Max({1, tabIndex - 1})].id
         ELSE nextTabs[1].id
    ELSE activeTabId

\* createTerminalSession(terminals)
createTerminalSession(terminals, uuid) == [id |-> uuid, label |-> Len(terminals) + 1]

\* allIds[0] || w.activePaneId, over the leaves of the new layout
FirstLeafOr(newLayout, activePaneId) ==
    LET allIds == getAllLeafIds(newLayout)
    IN  IF Len(allIds) > 0 THEN allIds[1] ELSE activePaneId

\* the new pane goes after the target whatever the position
dropPositionToSplit_AlwaysAfter(position) ==
    IF position \in {"top", "bottom"}
    THEN [direction |-> "vertical", placement |-> "after"]
    ELSE [direction |-> "horizontal", placement |-> "after"]

dropPositionToSplit(position) ==
    IF position = "left" THEN [direction |-> "horizontal", placement |-> "before"]
    ELSE IF position = "right" THEN [direction |-> "horizontal", placement |-> "after"]
    ELSE IF position = "top" THEN [direction |-> "vertical", placement |-> "before"]
    ELSE IF position = "bottom" THEN [direction |-> "vertical", placement |-> "after"]
    ELSE [direction |-> "horizontal", placement |-> "after"]

\* createWorkspace: one terminal pane holding one terminal
NewWorkspace ==
    [openFiles |-> <<>>,
     terminalPanes |-> Put(<<>>, 1, [tabs |-> <<createTerminalSession(<<>>, 2)>>,
                                     activeTabId |-> 2]),
     terminals |-> <<createTerminalSession(<<>>, 2)>>,
     layout |-> Terminal(1),
     activePaneId |-> 1,
     cwd |-> ".",
     uuid |-> 3]

\* the pane handleFileSelect opens the file in; EmptyId when there is none
FileTargetPane(w) ==
    LET activeNode == findInTile(w.layout, w.activePaneId)
        leafIds == getAllLeafIds(w.layout)
        editors == {i \in 1..Len(leafIds) : findInTile(w.layout, leafIds[i]).type = "editor"}
    IN  IF activeNode.type = "editor" THEN activeNode.filePath
        ELSE IF editors # {} THEN leafIds[Min(editors)]
        ELSE EmptyId

handleFileSelect(w, filePath, pinned) ==
    LET targetPaneId == FileTargetPane(w) IN
    IF targetPaneId = EmptyId
    THEN LET newEditorPaneId == w.uuid
             newTabId == w.uuid + 1
         IN  [w EXCEPT
                !.openFiles = Put(@, newEditorPaneId,
                                  [tabs |-> <<[id |-> newTabId, path |-> filePath,
                                               pinned |-> pinned]>>,
                                   activeTabId |-> newTabId]),
                !.layout = splitAtTile(w.layout, w.activePaneId, Editor(newEditorPaneId),
                                       "horizontal"),
                !.activePaneId = newEditorPaneId,
                !.uuid = @ + 2]
    ELSE IF ~HasKey(w.openFiles, targetPaneId) THEN w
    ELSE LET pane == w.openFiles[targetPaneId]
             existing == PathIndex(pane.tabs, filePath)
             preview == PreviewIndex(pane.tabs)
         IN  IF existing # 0
             THEN [w EXCEPT
                    !.openFiles[targetPaneId] =
                        [tabs |-> IF pinned /\ ~pane.tabs[existing].pinned
                                  THEN [i \in 1..Len(pane.tabs) |->
                                          IF pane.tabs[i].id = pane.tabs[existing].id
                                          THEN [pane.tabs[i] EXCEPT !.pinned = TRUE]
                                          ELSE pane.tabs[i]]
                                  ELSE pane.tabs,
                         activeTabId |-> pane.tabs[existing].id],
                    !.activePaneId = targetPaneId]
             ELSE IF pinned
             THEN [w EXCEPT
                    !.openFiles[targetPaneId] =
                        [tabs |-> Append(pane.tabs, [id |-> w.uuid, path |-> filePath,
                                                     pinned |-> TRUE]),
                         activeTabId |-> w.uuid],
                    !.activePaneId = targetPaneId,
                    !.uuid = @ + 1]
             ELSE IF preview # 0
             THEN [w EXCEPT
                    !.openFiles[targetPaneId] =
                        [tabs |-> [i \in 1..Len(pane.tabs) |->
                                     IF pane.tabs[i].id = pane.tabs[preview].id
                                     THEN [pane.tabs[i] EXCEPT !.path = filePath]
                                     ELSE pane.tabs[i]],
                         activeTabId |-> pane.tabs[preview].id],
                    !.activePaneId = targetPaneId]
             ELSE [w EXCEPT
                    !.openFiles[targetPaneId] =
                        [tabs |-> Append(pane.tabs, [id |-> w.uuid, path |-> filePath,
                                                     pinned |-> FALSE]),
                         activeTabId |-> w.uuid],
                    !.activePaneId = targetPaneId,
                    !.uuid = @ + 1]

handleSelectEditorTab(w, paneId, tabId) ==
    IF ~HasKey(w.openFiles, paneId) THEN w
    ELSE IF TabIndex(w.openFiles[paneId].tabs, tabId) = 0 THEN w
    ELSE [w EXCEPT !.openFiles[paneId].activeTabId = tabId, !.activePaneId = paneId]

handleCloseEditorTab(w, paneId, tabId) ==
    IF ~HasKey(w.openFiles, paneId) THEN w
    ELSE LET pane == w.openFiles[paneId]
             tabIndex == TabIndex(pane.tabs, tabId)
             nextTabs == TabsWithout(pane.tabs, tabId)
             newLayout == removeFromTile(w.layout, paneId)
         IN  IF tabIndex = 0 THEN w
             ELSE IF Len(nextTabs) = 0
             THEN IF newLayout = Null THEN w
                  ELSE [w EXCEPT
                         !.openFiles = Drop(@, paneId),
                         !.layout = newLayout,
                         !.activePaneId = IF @ = paneId THEN FirstLeafOr(newLayout, @) ELSE @]
             ELSE [w EXCEPT
                    !.openFiles[paneId] =
                        [tabs |-> nextTabs,
                         activeTabId |-> NextActiveTabId(pane.activeTabId, tabId, tabIndex,
                                                         nextTabs)],
                    !.activePaneId = paneId]

handleCreateTerminalTab(w, paneId) ==
    IF findInTile(w.layout, paneId).type # "terminal" THEN w
    ELSE IF ~HasKey(w.terminalPanes, paneId) THEN w
    ELSE LET newTerminal == createTerminalSession(w.terminals, w.uuid) IN
         [w EXCEPT
            !.terminals = Append(@, newTerminal),
            !.terminalPanes[paneId] =
                [tabs |-> Append(w.terminalPanes[paneId].tabs, newTerminal),
                 activeTabId |-> newTerminal.id],
            !.activePaneId = paneId,
            !.uuid = @ + 1]

handleSelectTerminalTab(w, paneId, tabId) ==
    IF ~HasKey(w.terminalPanes, paneId) THEN w
    ELSE IF TabIndex(w.terminalPanes[paneId].tabs, tabId) = 0 THEN w
    ELSE [w EXCEPT !.terminalPanes[paneId].activeTabId = tabId, !.activePaneId = paneId]

handleCloseTerminalTab(w, paneId, tabId) ==
    IF ~HasKey(w.terminalPanes, paneId) THEN w
    ELSE LET pane == w.terminalPanes[paneId]
             tabIndex == TabIndex(pane.tabs, tabId)
             nextTabs == TabsWithout(pane.tabs, tabId)
             nextTerminals == TabsWithout(w.terminals, tabId)
             newLayout == removeFromTile(w.layout, paneId)
         IN  IF tabIndex = 0 THEN w
             ELSE IF Len(nextTabs) = 0
             THEN IF newLayout = Null THEN w
                  ELSE [w EXCEPT
                         !.terminals = nextTerminals,
                         !.terminalPanes = Drop(@, paneId),
                         !.layout = newLayout,
                         !.activePaneId = IF @ = paneId THEN FirstLeafOr(newLayout, @) ELSE @]
             ELSE [w EXCEPT
                    !.terminals = nextTerminals,
                    !.terminalPanes[paneId] =
                        [tabs |-> nextTabs,
                         activeTabId |-> NextActiveTabId(pane.activeTabId, tabId, tabIndex,
                                                         nextTabs)],
                    !.activePaneId = paneId]

handleMoveTerminalTab(w, fromPaneId, tabId, targetPaneId) ==
    IF fromPaneId = targetPaneId THEN w
    ELSE IF findInTile(w.layout, fromPaneId).type # "terminal"
            \/ findInTile(w.layout, targetPaneId).type # "terminal" THEN w
    ELSE IF ~HasKey(w.terminalPanes, fromPaneId) \/ ~HasKey(w.terminalPanes, targetPaneId) THEN w
    ELSE LET sourcePane == w.terminalPanes[fromPaneId]
             sourceTabIndex == TabIndex(sourcePane.tabs, tabId)
             movedTab == sourcePane.tabs[sourceTabIndex]
             remainingSourceTabs == TabsWithout(sourcePane.tabs, tabId)
             prunedLayout == removeFromTile(w.layout, fromPaneId)
             layout == IF Len(remainingSourceTabs) = 0 THEN prunedLayout ELSE w.layout
             terminalPanes ==
                 IF Len(remainingSourceTabs) = 0
                 THEN Drop(w.terminalPanes, fromPaneId)
                 ELSE [w.terminalPanes EXCEPT ![fromPaneId] =
                          [tabs |-> remainingSourceTabs,
                           activeTabId |-> NextActiveTabId(sourcePane.activeTabId, tabId,
                                                           sourceTabIndex, remainingSourceTabs)]]
         IN  IF sourceTabIndex = 0 THEN w
             ELSE IF Len(remainingSourceTabs) = 0 /\ prunedLayout = Null THEN w
             ELSE IF Len(remainingSourceTabs) = 0 /\ findInTile(layout, targetPaneId) = Null THEN w
             ELSE IF ~HasKey(terminalPanes, targetPaneId) THEN w
             ELSE LET updatedTargetPane == terminalPanes[targetPaneId]
                      targetHasTab == TabIndex(updatedTargetPane.tabs, tabId) # 0
                  IN  [w EXCEPT
                         !.terminalPanes =
                             [terminalPanes EXCEPT ![targetPaneId] =
                                [tabs |-> IF targetHasTab THEN updatedTargetPane.tabs
                                          ELSE Append(updatedTargetPane.tabs, movedTab),
                                 activeTabId |-> movedTab.id]],
                         !.layout = layout,
                         !.activePaneId = targetPaneId]

handleSplitPane(w, paneId, direction) ==
    LET splitNode == findInTile(w.layout, paneId) IN
    IF splitNode = Null THEN w
    ELSE IF splitNode.type = "terminal"
    THEN LET newPaneId == w.uuid
             newTerminal == createTerminalSession(w.terminals, w.uuid + 1)
         IN  [w EXCEPT
                !.terminals = Append(@, newTerminal),
                !.terminalPanes = Put(@, newPaneId, [tabs |-> <<newTerminal>>,
                                                     activeTabId |-> newTerminal.id]),
                !.layout = splitAtTile(w.layout, paneId, Terminal(newPaneId), direction),
                !.activePaneId = newPaneId,
                !.uuid = @ + 2]
    ELSE IF ~HasKey(w.openFiles, splitNode.filePath) THEN w
    ELSE LET sourcePane == w.openFiles[splitNode.filePath]
             activeIndex == TabIndex(sourcePane.tabs, sourcePane.activeTabId)
             newEditorPaneId == w.uuid
             newTabId == w.uuid + 1
         IN  IF Len(sourcePane.tabs) = 0 THEN w
             ELSE LET sourceTab == sourcePane.tabs[IF activeIndex # 0 THEN activeIndex ELSE 1]
                  IN  [w EXCEPT
                         !.openFiles = Put(@, newEditorPaneId,
                                           [tabs |-> <<[id |-> newTabId, path |-> sourceTab.path,
                                                        pinned |-> TRUE]>>,
                                            activeTabId |-> newTabId]),
                         !.layout = splitAtTile(w.layout, paneId, Editor(newEditorPaneId),
                                                direction),
                         !.activePaneId = newEditorPaneId,
                         !.uuid = @ + 2]

\* the pane that had focus keeps it even when it is the pane closed
ClosePaneFocus_Stale(newLayout, activePaneId, paneId) == activePaneId

\* newActivePaneId === paneId ? (allIds[0] || w.activePaneId) : newActivePaneId
ClosePaneFocus(newLayout, activePaneId, paneId) ==
    IF activePaneId = paneId THEN FirstLeafOr(newLayout, activePaneId) ELSE activePaneId

handleClosePane(w, paneId) ==
    LET newLayout == removeFromTile(w.layout, paneId)
        node == findInTile(w.layout, paneId)
        tabs == IF node.type = "terminal" /\ HasKey(w.terminalPanes, node.terminalId)
                THEN w.terminalPanes[node.terminalId].tabs
                ELSE <<>>
        tabIds == {tabs[i].id : i \in 1..Len(tabs)}
    IN  IF newLayout = Null THEN w
        ELSE [w EXCEPT
                !.openFiles = IF node.type = "editor" THEN Drop(@, node.filePath) ELSE @,
                !.terminalPanes = IF node.type = "terminal" THEN Drop(@, node.terminalId) ELSE @,
                !.terminals = IF node.type = "terminal"
                              THEN SelectSeq(@, LAMBDA tab : tab.id \notin tabIds)
                              ELSE @,
                !.layout = newLayout,
                !.activePaneId = ClosePaneFocus(newLayout, w.activePaneId, paneId)]

handleSwapPanes(w, fromId, toId) == [w EXCEPT !.layout = swapTiles(w.layout, fromId, toId)]

handleDropSplit(w, fromId, targetId, direction) ==
    LET fromNode == findInTile(w.layout, fromId)
        removed == removeFromTile(w.layout, fromId)
    IN  IF fromNode = Null THEN w
        ELSE IF removed = Null THEN w
        ELSE [w EXCEPT !.layout = splitAtTile(removed, targetId, fromNode, direction)]

handleDropEditorTab(w, fromPaneId, tabId, targetPaneId, position) ==
    IF findInTile(w.layout, targetPaneId).type # "terminal" THEN w
    ELSE IF ~HasKey(w.openFiles, fromPaneId) THEN w
    ELSE LET sourcePane == w.openFiles[fromPaneId]
             draggedIndex == TabIndex(sourcePane.tabs, tabId)
             draggedTab == sourcePane.tabs[draggedIndex]
             remainingSourceTabs == TabsWithout(sourcePane.tabs, tabId)
             prunedLayout == removeFromTile(w.layout, fromPaneId)
             layout == IF Len(remainingSourceTabs) = 0 THEN prunedLayout ELSE w.layout
             openFiles ==
                 IF Len(remainingSourceTabs) = 0
                 THEN Drop(w.openFiles, fromPaneId)
                 ELSE [w.openFiles EXCEPT ![fromPaneId] =
                          [tabs |-> remainingSourceTabs,
                           activeTabId |-> NextActiveTabId(sourcePane.activeTabId, tabId,
                                                           draggedIndex, remainingSourceTabs)]]
             split == dropPositionToSplit(position)
             newPaneId == w.uuid
             newTabId == w.uuid + 1
         IN  IF draggedIndex = 0 THEN w
             ELSE IF Len(remainingSourceTabs) = 0 /\ prunedLayout = Null THEN w
             ELSE IF findInTile(layout, targetPaneId) = Null THEN w
             ELSE [w EXCEPT
                    !.openFiles = Put(openFiles, newPaneId,
                                      [tabs |-> <<[draggedTab EXCEPT !.id = newTabId,
                                                                     !.pinned = TRUE]>>,
                                       activeTabId |-> newTabId]),
                    !.layout = splitAtTileWithPlacement(layout, targetPaneId, Editor(newPaneId),
                                                        split.direction, split.placement),
                    !.activePaneId = newPaneId,
                    !.uuid = @ + 2]

handleMoveEditorTab(w, fromPaneId, tabId, targetPaneId) ==
    IF fromPaneId = targetPaneId THEN w
    ELSE IF findInTile(w.layout, fromPaneId).type # "editor"
            \/ findInTile(w.layout, targetPaneId).type # "editor" THEN w
    ELSE IF ~HasKey(w.openFiles, fromPaneId) \/ ~HasKey(w.openFiles, targetPaneId) THEN w
    ELSE LET sourcePane == w.openFiles[fromPaneId]
             draggedIndex == TabIndex(sourcePane.tabs, tabId)
             draggedTab == sourcePane.tabs[draggedIndex]
             remainingSourceTabs == TabsWithout(sourcePane.tabs, tabId)
             prunedLayout == removeFromTile(w.layout, fromPaneId)
             layout == IF Len(remainingSourceTabs) = 0 THEN prunedLayout ELSE w.layout
             openFiles ==
                 IF Len(remainingSourceTabs) = 0
                 THEN Drop(w.openFiles, fromPaneId)
                 ELSE [w.openFiles EXCEPT ![fromPaneId] =
                          [tabs |-> remainingSourceTabs,
                           activeTabId |-> NextActiveTabId(sourcePane.activeTabId, tabId,
                                                           draggedIndex, remainingSourceTabs)]]
         IN  IF draggedIndex = 0 THEN w
             ELSE IF Len(remainingSourceTabs) = 0 /\ prunedLayout = Null THEN w
             ELSE IF Len(remainingSourceTabs) = 0 /\ findInTile(layout, targetPaneId) = Null THEN w
             ELSE IF ~HasKey(openFiles, targetPaneId) THEN w
             ELSE LET updatedTargetPane == openFiles[targetPaneId]
                      existing == PathIndex(updatedTargetPane.tabs, draggedTab.path)
                      existingId == updatedTargetPane.tabs[existing].id
                  IN  [w EXCEPT
                         !.openFiles =
                             [openFiles EXCEPT ![targetPaneId] =
                                IF existing # 0
                                THEN [tabs |-> [i \in 1..Len(updatedTargetPane.tabs) |->
                                                  IF updatedTargetPane.tabs[i].id = existingId
                                                  THEN [updatedTargetPane.tabs[i] EXCEPT
                                                          !.pinned = @ \/ draggedTab.pinned,
                                                          !.path = draggedTab.path]
                                                  ELSE updatedTargetPane.tabs[i]],
                                      activeTabId |-> existingId]
                                ELSE [tabs |-> Append(updatedTargetPane.tabs, draggedTab),
                                      activeTabId |-> draggedTab.id]],
                         !.layout = layout,
                         !.activePaneId = targetPaneId]

\* only the leaves of the layout can be focused
handleFocusPane_Leaf(w, paneId) ==
    IF existsInTile(w.layout, paneId) THEN [w EXCEPT !.activePaneId = paneId] ELSE w

handleFocusPane(w, paneId) ==
    IF w.activePaneId = paneId THEN w ELSE [w EXCEPT !.activePaneId = paneId]

(***************************************************************************)
(* State.                                                                  *)
(***************************************************************************)
VARIABLES
    sessions,   \* TerminalManager.sessions: id -> Session
    ptys,       \* the PTY processes spawned so far: pid -> process
    nextPid,    \* the pid the next pty.spawn returns
    wsState,    \* endpoint -> "fresh" | "open" | "closing" | "closed"
    wsSession,  \* endpoint -> the sessionId its handlers were registered with
    wsSent,     \* endpoint -> number of output chunks sent to it
    wsCode,     \* endpoint -> close code the server closed it with (0: none)
    now,        \* Date.now()
    timerOn,    \* the cleanup interval is set
    last,       \* the operation that made the last step
    detachedAt, \* session id -> time its endpoint last detached (-1: bound since attach)
    workspace,  \* the active WorkspaceState of App
    wlast,      \* the App handler that made the last step, with its arguments
    calls,      \* the number of handler calls App has made
    dropped,    \* the drop TileRenderer handled in the last step, if it was one
    tile,       \* a TileNode the tileLayout functions are applied to
    tileCall,   \* the tileLayout call that made the last step
    panelWs,    \* terminal id -> the WebSocket of its mounted TerminalPanel
    closedTerms \* ids of the terminals whose pane was closed

regVars == <<sessions, ptys, nextPid, wsState, wsSession, wsSent, wsCode, now, timerOn>>

managerVars == <<regVars, last, detachedAt>>

wsVars == <<workspace, wlast, calls, dropped>>

tileVars == <<tile, tileCall>>

appVars == <<panelWs, closedTerms>>

vars == <<sessions, ptys, nextPid, wsState, wsSession, wsSent, wsCode, now, timerOn, last,
          detachedAt, workspace, wlast, calls, dropped, tile, tileCall, panelWs, closedTerms>>

NoProc == [state |-> "none", sid |-> NoSession, input |-> <<>>,
           cols |-> Num(0, 1), rows |-> Num(0, 1), cwd |-> ""]

\* the record of a step: the handler that ran, its arguments, the session
\* ids the step took out of the registry, and what killSession returned
Op(name, sid, e, p, f) ==
    [op |-> name, sid |-> sid, ws |-> e, pid |-> p, frame |-> f,
     removed |-> DOMAIN sessions \ DOMAIN sessions',
     result |-> name = "killSession" /\ sid \in DOMAIN sessions]

NoOp == [op |-> "init", sid |-> NoSession, ws |-> NoWs, pid |-> NoPid, frame |-> NoFrame,
         removed |-> {}, result |-> FALSE]

InitRegistry ==
    /\ sessions = <<>>
    /\ ptys = [p \in Pids |-> NoProc]
    /\ nextPid = 1
    /\ wsState = [e \in Endpoints |-> "fresh"]
    /\ wsSession = [e \in Endpoints |-> NoSession]
    /\ wsSent = [e \in Endpoints |-> 0]
    /\ wsCode = [e \in Endpoints |-> NoStatus]
    /\ now = 0
    /\ timerOn = TRUE
    /\ last = NoOp
    /\ detachedAt = <<>>

\* no handler has run yet
NoCall ==
    [op |-> "init", paneId |-> EmptyId, fromId |-> EmptyId, tabId |-> EmptyId, how |-> "",
     pinned |-> FALSE, found |-> FALSE, active |-> FALSE, shown |-> FALSE]

\* DataTransfer.getData of a type no drag source has set: ''
NoData == Null

\* no drop has been handled
NoDrop ==
    [data |-> [editorTab |-> NoData, terminalTab |-> NoData, plain |-> EmptyId],
     targetId |-> EmptyId, position |-> ""]

\* useState: the workspace createWorkspace builds
InitWorkspace ==
    /\ workspace = NewWorkspace
    /\ wlast = NoCall
    /\ calls = 0
    /\ dropped = NoDrop

\* no tileLayout function has been called yet
NoTileCall == [op |-> "init"]

\* the tree of a new workspace
InitTile ==
    /\ tile = Terminal(1)
    /\ tileCall = NoTileCall

\* no TerminalPanel is mounted
InitPanels ==
    /\ panelWs = <<>>
    /\ closedTerms = {}

InitReg == InitRegistry /\ InitWorkspace /\ InitTile /\ InitPanels

Has(sid) == sid \in DOMAIN sessions

\* nothing is deleted
Without_Nothing(m, ks) == m

Without(m, ks) == [k \in DOMAIN m \ ks |-> m[k]]

With(m, k, v) == [x \in DOMAIN m \cup {k} |-> IF x = k THEN v ELSE m[x]]

\* ws.readyState === 1
IsOpen(e) == wsState[e] = "open"

(***************************************************************************)
(* attach(sessionId, ws)                                                   *)
(***************************************************************************)
\* every attach spawns a process
NeedsSpawn_Always(sid) == TRUE

\* if (!session) { spawn ... }
NeedsSpawn(sid) == ~Has(sid)

\* this.cwd: new TerminalManager(PROJECT_ROOT)
ProjectRoot == "/project"

\* connections arrive one at a time: the next ws object is the lowest unused one
NextEndpoint(e) == wsState[e] = "fresh" /\ \A x \in Endpoints : x < e => wsState[x] # "fresh"

Attach(sid, e) ==
    /\ NextEndpoint(e)
    /\ NeedsSpawn(sid) => nextPid <= MaxProcs
    /\ IF NeedsSpawn(sid)
       THEN /\ ptys' = [ptys EXCEPT ![nextPid] =
                            [state |-> "running", sid |-> sid, input |-> <<>>,
                             cols |-> Num(DefaultCols, 1), rows |-> Num(DefaultRows, 1),
                             cwd |-> ProjectRoot]]
            /\ nextPid' = nextPid + 1
            /\ sessions' = With(sessions, sid,
                                [id |-> sid, pty |-> nextPid, ws |-> e, lastActivity |-> now,
                                 cols |-> Num(DefaultCols, 1), rows |-> Num(DefaultRows, 1)])
       ELSE /\ sessions' = [sessions EXCEPT ![sid].ws = e, ![sid].lastActivity = now]
            /\ UNCHANGED <<ptys, nextPid>>
    /\ wsState' = [wsState EXCEPT ![e] = "open"]
    /\ wsSession' = [wsSession EXCEPT ![e] = sid]
    /\ detachedAt' = With(detachedAt, sid, -1)
    /\ UNCHANGED <<wsSent, wsCode, now, timerOn>>
    /\ last' = Op("attach", sid, e, sessions'[sid].pty, NoFrame)

(***************************************************************************)
(* ws.on('message')                                                        *)
(***************************************************************************)
\* the frame is a control candidate that passes the resize test
IsControl(data) == StartsWithBrace(data) /\ ~ParseThrows(data) /\ IsResizeCtrl(data)

\* the frames of an endpoint its session is not bound to are dropped
Message_BoundOnly(e, data) ==
    /\ wsState[e] \in {"open", "closing"}
    /\ LET sid == wsSession[e] IN
       IF Has(sid) /\ sessions[sid].ws = e
       THEN /\ Len(ptys[sessions[sid].pty].input) < MaxInput
            /\ ptys' = [ptys EXCEPT ![sessions[sid].pty].input = Append(@, data)]
            /\ sessions' = [sessions EXCEPT ![sid].lastActivity = now]
       ELSE UNCHANGED <<sessions, ptys>>
    /\ UNCHANGED <<nextPid, wsState, wsSession, wsSent, wsCode, now, timerOn, detachedAt>>
    /\ last' = Op("message", wsSession[e], e, NoPid, data)

Message(e, data) ==
    /\ wsState[e] \in {"open", "closing"}
    /\ LET sid == wsSession[e] IN
       IF ~Has(sid)
       THEN UNCHANGED <<sessions, ptys>>
       ELSE LET s == sessions[sid]
                c == Prop(data, "cols")
                r == Prop(data, "rows")
            IN    IF IsControl(data) /\ ~ResizeThrows(c, r)
                  THEN /\ ptys' = [ptys EXCEPT ![s.pty].cols = c, ![s.pty].rows = r]
                       /\ sessions' = [sessions EXCEPT ![sid].lastActivity = now,
                                                       ![sid].cols = c, ![sid].rows = r]
                  ELSE /\ Len(ptys[s.pty].input) < MaxInput
                       /\ ptys' = [ptys EXCEPT ![s.pty].input = Append(@, data)]
                       /\ sessions' = [sessions EXCEPT ![sid].lastActivity = now]
    /\ UNCHANGED <<nextPid, wsState, wsSession, wsSent, wsCode, now, timerOn, detachedAt>>
    /\ last' = Op("message", wsSession[e], e, NoPid, data)

(***************************************************************************)
(* ws.on('close') and ws.on('error')                                       *)
(***************************************************************************)
\* the binding is cleared whichever endpoint the event comes from
Detach_Any(e) ==
    LET sid == wsSession[e] IN
    IF Has(sid)
    THEN /\ sessions' = [sessions EXCEPT ![sid].ws = NoWs]
         /\ detachedAt' = [detachedAt EXCEPT ![sid] = now]
    ELSE UNCHANGED <<sessions, detachedAt>>

\* if (s && s.ws === ws) s.ws = null
Detach(e) ==
    LET sid == wsSession[e] IN
    IF Has(sid) /\ sessions[sid].ws = e
    THEN /\ sessions' = [sessions EXCEPT ![sid].ws = NoWs]
         /\ detachedAt' = [detachedAt EXCEPT ![sid] = now]
    ELSE UNCHANGED <<sessions, detachedAt>>

WsClose(e) ==
    /\ wsState[e] \in {"open", "closing"}
    /\ Detach(e)
    /\ wsState' = [wsState EXCEPT ![e] = "closed"]
    /\ UNCHANGED <<ptys, nextPid, wsSession, wsSent, wsCode, now, timerOn>>
    /\ last' = Op("close", wsSession[e], e, NoPid, NoFrame)

\* the peer starts the closing handshake: readyState becomes 2 and the 'close'
\* event has not been emitted yet
WsClosing(e) ==
    /\ wsState[e] = "open"
    /\ wsState' = [wsState EXCEPT ![e] = "closing"]
    /\ UNCHANGED <<sessions, ptys, nextPid, wsSession, wsSent, wsCode, now, timerOn, detachedAt>>
    /\ last' = Op("closing", wsSession[e], e, NoPid, NoFrame)

WsError(e) ==
    /\ wsState[e] = "open"
    /\ Detach(e)
    /\ wsState' = [wsState EXCEPT ![e] = "closing"]
    /\ UNCHANGED <<ptys, nextPid, wsSession, wsSent, wsCode, now, timerOn>>
    /\ last' = Op("error", wsSession[e], e, NoPid, NoFrame)

(***************************************************************************)
(* p.onData and p.onExit                                                   *)
(***************************************************************************)
\* no session has an endpoint to deliver to
Deliverable_Never(sid) == FALSE

\* the endpoint's readyState is not looked at
Deliverable_Bound(sid) == Has(sid) /\ sessions[sid].ws # NoWs

\* s?.ws && s.ws.readyState === 1, for the session now registered under sid
Deliverable(sid) == Has(sid) /\ sessions[sid].ws # NoWs /\ IsOpen(sessions[sid].ws)

PtyData(p) ==
    /\ ptys[p].state \in {"running", "killed"}
    /\ LET sid == ptys[p].sid IN
       IF Deliverable(sid)
       THEN /\ wsSent[sessions[sid].ws] < MaxSent
            /\ wsSent' = [wsSent EXCEPT ![sessions[sid].ws] = @ + 1]
       ELSE UNCHANGED wsSent
    /\ UNCHANGED <<sessions, ptys, nextPid, wsState, wsSession, wsCode, now, timerOn, detachedAt>>
    /\ last' = Op("data", ptys[p].sid, NoWs, p, NoFrame)

PtyExit(p) ==
    /\ ptys[p].state \in {"running", "killed"}
    /\ LET sid == ptys[p].sid IN
       /\ IF Deliverable(sid)
          THEN /\ wsState' = [wsState EXCEPT ![sessions[sid].ws] = "closing"]
               /\ wsCode' = [wsCode EXCEPT ![sessions[sid].ws] = ProcessExited]
          ELSE UNCHANGED <<wsState, wsCode>>
       /\ sessions' = Without(sessions, {sid})
       /\ detachedAt' = Without(detachedAt, {sid})
    /\ ptys' = [ptys EXCEPT ![p].state = "exited"]
    /\ UNCHANGED <<nextPid, wsSession, wsSent, now, timerOn>>
    /\ last' = Op("exit", ptys[p].sid, NoWs, p, NoFrame)

(***************************************************************************)
(* killSession, sweep, destroy                                             *)
(***************************************************************************)
\* session.pty.kill() for every session id in ids
Killed(ids) ==
    [p \in Pids |-> IF \E sid \in ids : Has(sid) /\ sessions[sid].pty = p
                    THEN [ptys[p] EXCEPT !.state = "killed"]
                    ELSE ptys[p]]

KillSession(sid) ==
    /\ IF Has(sid)
       THEN /\ ptys' = Killed({sid})
            /\ sessions' = Without(sessions, {sid})
            /\ detachedAt' = Without(detachedAt, {sid})
       ELSE UNCHANGED <<sessions, ptys, detachedAt>>
    /\ UNCHANGED <<nextPid, wsState, wsSession, wsSent, wsCode, now, timerOn>>
    /\ last' = Op("killSession", sid, NoWs, NoPid, NoFrame)

\* the sweep takes no session
ShouldSweep_Never(s) == FALSE

\* the threshold itself counts as expired
ShouldSweep_AtThreshold(s) == s.ws = NoWs /\ now - s.lastActivity >= ORPHAN_TIMEOUT

\* !session.ws && now - session.lastActivity > ORPHAN_TIMEOUT
ShouldSweep(s) == s.ws = NoWs /\ now - s.lastActivity > ORPHAN_TIMEOUT

Sweep ==
    /\ timerOn
    /\ LET swept == {sid \in DOMAIN sessions : ShouldSweep(sessions[sid])} IN
       /\ ptys' = Killed(swept)
       /\ sessions' = Without(sessions, swept)
       /\ detachedAt' = Without(detachedAt, swept)
    /\ UNCHANGED <<nextPid, wsState, wsSession, wsSent, wsCode, now, timerOn>>
    /\ last' = Op("sweep", NoSession, NoWs, NoPid, NoFrame)

Destroy ==
    /\ timerOn' = FALSE
    /\ ptys' = Killed(DOMAIN sessions)
    /\ sessions' = <<>>
    /\ detachedAt' = <<>>
    /\ UNCHANGED <<nextPid, wsState, wsSession, wsSent, wsCode, now>>
    /\ last' = Op("destroy", NoSession, NoWs, NoPid, NoFrame)

\* the passage of time between events
Tick(d) ==
    /\ now + d <= MaxTime
    /\ (now + d) % ORPHAN_TIMEOUT <= MaxJitter
    /\ now' = now + d
    /\ UNCHANGED <<sessions, ptys, nextPid, wsState, wsSession, wsSent, wsCode, timerOn, detachedAt>>
    /\ last' = Op("tick", NoSession, NoWs, NoPid, NoFrame)

(***************************************************************************)
(* The registry under its lifecycle events.                                *)
(***************************************************************************)
InputFrame == TextFrame("l")

LifeFrames == {InputFrame}

NextReg ==
    \/ \E sid \in SessionIds, e \in Endpoints : Attach(sid, e)
          /\ UNCHANGED <<wsVars, tileVars, appVars>>
    \/ \E e \in Endpoints, data \in LifeFrames : Message(e, data)
          /\ UNCHANGED <<wsVars, tileVars, appVars>>
    \/ \E e \in Endpoints : WsClose(e)
          /\ UNCHANGED <<wsVars, tileVars, appVars>>
    \/ \E e \in Endpoints : WsError(e)
          /\ UNCHANGED <<wsVars, tileVars, appVars>>
    \/ \E p \in Pids : PtyData(p)
          /\ UNCHANGED <<wsVars, tileVars, appVars>>
    \/ \E p \in Pids : PtyExit(p)
          /\ UNCHANGED <<wsVars, tileVars, appVars>>
    \/ \E sid \in SessionIds : KillSession(sid)
          /\ UNCHANGED <<wsVars, tileVars, appVars>>
    \/ Sweep
          /\ UNCHANGED <<wsVars, tileVars, appVars>>
    \/ Destroy
          /\ UNCHANGED <<wsVars, tileVars, appVars>>
    \/ \E d \in {1, ORPHAN_TIMEOUT} : Tick(d)
          /\ UNCHANGED <<wsVars, tileVars, appVars>>

SpecReg == InitReg /\ [][NextReg]_vars

(***************************************************************************)
(* The registry while the manager lives: setInterval keeps calling sweep   *)
(* and the clock keeps advancing, up to the last instant of the model.     *)
(***************************************************************************)
LiveSweep == Sweep /\ UNCHANGED <<wsVars, tileVars, appVars>>

LiveTick == (\E d \in {1, ORPHAN_TIMEOUT} : Tick(d)) /\ UNCHANGED <<wsVars, tileVars, appVars>>

NextLive ==
    \/ \E sid \in SessionIds, e \in Endpoints : Attach(sid, e)
          /\ UNCHANGED <<wsVars, tileVars, appVars>>
    \/ \E e \in Endpoints, data \in LifeFrames : Message(e, data)
          /\ UNCHANGED <<wsVars, tileVars, appVars>>
    \/ \E e \in Endpoints : WsClose(e)
          /\ UNCHANGED <<wsVars, tileVars, appVars>>
    \/ LiveSweep
    \/ LiveTick

SpecLive == InitReg /\ [][NextLive]_vars /\ WF_vars(LiveSweep) /\ WF_vars(LiveTick)

(***************************************************************************)
(* The registry under inbound frames of every kind.                        *)
(***************************************************************************)
\* "{not json"
BraceFrame == TextFrame("{")

ResizeFrame == ControlFrame("resize", Num(120, 1), Num(40, 1))

\* {"type":"resize","cols":100,"rows":30,"rows":31}: the later member wins
RepeatFrame ==
    ObjectFrame(<<Member("type", Str("resize")), Member("cols", Num(100, 1)),
                  Member("rows", Num(30, 1)), Member("rows", Num(31, 1))>>)

\* {"type":"ping","cols":120,"rows":40}
PingFrame == ControlFrame("ping", Num(120, 1), Num(40, 1))

\* {"type":"resize","cols":0,"rows":40}
ZeroFrame == ControlFrame("resize", Num(0, 1), Num(40, 1))

\* {"type":"resize","cols":120,"rows":-1}
NegativeFrame == ControlFrame("resize", Num(120, 1), Num(-1, 1))

\* {"type":"resize","cols":80.5,"rows":24}
FractionFrame == ControlFrame("resize", Num(161, 2), Num(24, 1))

\* {"type":"resize","cols":"120","rows":40}
StringFrame == ControlFrame("resize", Str("120"), Num(40, 1))

\* {"type":"resize","cols":120}
MissingFrame == ObjectFrame(<<Member("type", Str("resize")), Member("cols", Num(120, 1))>>)

CodecFrames ==
    {InputFrame, BraceFrame, ResizeFrame, RepeatFrame, PingFrame, ZeroFrame, NegativeFrame,
     FractionFrame, StringFrame, MissingFrame}

NextCodec ==
    \/ \E sid \in SessionIds, e \in Endpoints : Attach(sid, e)
          /\ UNCHANGED <<wsVars, tileVars, appVars>>
    \/ \E e \in Endpoints, data \in CodecFrames : Message(e, data)
          /\ UNCHANGED <<wsVars, tileVars, appVars>>
    \/ \E e \in Endpoints : WsClose(e)
          /\ UNCHANGED <<wsVars, tileVars, appVars>>

SpecCodec == InitReg /\ [][NextCodec]_vars

(***************************************************************************)
(* Inbound frames while sessions come and go: every endpoint keeps the     *)
(* message handler attach registered for it, whether or not it is still    *)
(* the endpoint its session is bound to.                                   *)
(***************************************************************************)
InboundFrames == {InputFrame, ResizeFrame}

NextInbound ==
    \/ \E sid \in SessionIds, e \in Endpoints : Attach(sid, e)
          /\ UNCHANGED <<wsVars, tileVars, appVars>>
    \/ \E e \in Endpoints, data \in InboundFrames : Message(e, data)
          /\ UNCHANGED <<wsVars, tileVars, appVars>>
    \/ \E e \in Endpoints : WsClose(e)
          /\ UNCHANGED <<wsVars, tileVars, appVars>>
    \/ \E sid \in SessionIds : KillSession(sid)
          /\ UNCHANGED <<wsVars, tileVars, appVars>>
    \/ \E d \in {1, ORPHAN_TIMEOUT} : Tick(d)
          /\ UNCHANGED <<wsVars, tileVars, appVars>>

SpecInbound == InitReg /\ [][NextInbound]_vars

(***************************************************************************)
(* wss.on('connection'): the upgrade request of a connection carries a     *)
(* cookie, a token parameter and a session parameter; the handler checks   *)
(* the first two and hands the connection to attach under the third.       *)
(***************************************************************************)
\* an absent cookie, an absent or empty parameter
Absent == ""

\* authConfig.token
Token == "tok"

\* signToken(token)
signToken(token) == "hmac(" \o token \o ")"

Credentials == {Absent, Token, signToken(Token)}

\* the cwd parameter of a request: absent, or a directory
Directories == {Absent, "/elsewhere"}

\* req: the auth cookie and the token, session and cwd parameters
Requests ==
    [cookie : Credentials, token : Credentials, session : SessionIds \cup {NoSession},
     cwd : Directories]

\* every request passes
validateWebSocketToken_Open(req) == TRUE

\* cookies[config.cookieName] === signature || searchParams.get('token') === config.token
validateWebSocketToken(req) ==
    \/ req.cookie = signToken(Token)
    \/ req.token = Token

\* the handler goes on to attach the connection
Refuse_Attach(e, code) == Attach(MaxSessionId, e)

\* ws.close(code, reason) on a connection no handler was registered for
Refuse(e, code) ==
    /\ NextEndpoint(e)
    /\ wsState' = [wsState EXCEPT ![e] = "closing"]
    /\ wsCode' = [wsCode EXCEPT ![e] = code]
    /\ UNCHANGED <<sessions, ptys, nextPid, wsSession, wsSent, now, timerOn, detachedAt>>
    /\ last' = Op("refuse", NoSession, e, NoPid, NoFrame)

Connection(e, req) ==
    IF ~validateWebSocketToken(req)
    THEN Refuse(e, Unauthorized)
    ELSE IF req.session = NoSession
         THEN Refuse(e, MissingSessionId)
         \* attach(sessionId, ws) takes two arguments: the cwd passed third is dropped
         ELSE Attach(req.session, e)

NextConn ==
    \/ \E e \in Endpoints, req \in Requests : Connection(e, req)
          /\ UNCHANGED <<wsVars, tileVars, appVars>>
    \/ \E e \in Endpoints, data \in LifeFrames : Message(e, data)
          /\ UNCHANGED <<wsVars, tileVars, appVars>>
    \/ \E e \in Endpoints : WsClosing(e)
          /\ UNCHANGED <<wsVars, tileVars, appVars>>
    \/ \E e \in Endpoints : WsClose(e)
          /\ UNCHANGED <<wsVars, tileVars, appVars>>
    \/ \E p \in Pids : PtyData(p)
          /\ UNCHANGED <<wsVars, tileVars, appVars>>
    \/ \E p \in Pids : PtyExit(p)
          /\ UNCHANGED <<wsVars, tileVars, appVars>>

SpecConn == InitReg /\ [][NextConn]_vars

(***************************************************************************)
(* The tileLayout functions applied to layout trees.  Every leaf id is     *)
(* unique within a tree, and a node added to a tree carries an id the tree *)
(* does not hold, as the ids App draws from crypto.randomUUID().           *)
(***************************************************************************)
TreeIds == 1..MaxTreeId

Leaves == {Terminal(i) : i \in TreeIds} \cup {Editor(i) : i \in TreeIds}

Placements == {"before", "after"}

\* the trees of one and of two leaves
SmallTrees ==
    Leaves \cup {t \in {SplitNode(d, l, r) : d \in Directions, l \in Leaves, r \in Leaves} :
                    leafId(t.children[1]) # leafId(t.children[2])}

InitTrees ==
    /\ tile \in SmallTrees
    /\ tileCall = NoTileCall

IsNew(node) == ~existsInTile(tile, leafId(node))

TileCall(name, id, node, direction, placement) ==
    [op |-> name, layout |-> tile, id |-> id, node |-> node, direction |-> direction,
     placement |-> placement]

TileSplit(targetId, newNode, direction) ==
    /\ countLeaves(tile) < MaxLeaves
    /\ IsNew(newNode)
    /\ tile' = splitAtTile(tile, targetId, newNode, direction)
    /\ tileCall' = TileCall("splitAtTile", targetId, newNode, direction, "after")

TileSplitPlaced(targetId, newNode, direction, placement) ==
    /\ countLeaves(tile) < MaxLeaves
    /\ IsNew(newNode)
    /\ tile' = splitAtTileWithPlacement(tile, targetId, newNode, direction, placement)
    /\ tileCall' = TileCall("splitAtTileWithPlacement", targetId, newNode, direction, placement)

\* callers keep their tree when the result is null
TileRemove(id) ==
    /\ tile' = IF removeFromTile(tile, id) = Null THEN tile ELSE removeFromTile(tile, id)
    /\ tileCall' = TileCall("removeFromTile", id, removeFromTile(tile, id), "", "")

TileReplace(id, replacement) ==
    /\ IsNew(replacement)
    /\ tile' = replaceInTile(tile, id, replacement)
    /\ tileCall' = TileCall("replaceInTile", id, replacement, "", "")

TileSwap(idA, idB) ==
    /\ tile' = swapTiles(tile, idA, idB)
    /\ tileCall' = TileCall("swapTiles", idA, Terminal(idB), "", "")

NextTree ==
    \/ \E x \in TreeIds, n \in Leaves, d \in Directions : TileSplit(x, n, d)
          /\ UNCHANGED <<managerVars, wsVars, appVars>>
    \/ \E x \in TreeIds, n \in Leaves, d \in Directions, pl \in Placements :
          TileSplitPlaced(x, n, d, pl)
          /\ UNCHANGED <<managerVars, wsVars, appVars>>
    \/ \E x \in TreeIds : TileRemove(x)
          /\ UNCHANGED <<managerVars, wsVars, appVars>>
    \/ \E x \in TreeIds, n \in Leaves : TileReplace(x, n)
          /\ UNCHANGED <<managerVars, wsVars, appVars>>
    \/ \E x \in TreeIds, y \in TreeIds : TileSwap(x, y)
          /\ UNCHANGED <<managerVars, wsVars, appVars>>

InitTree == InitRegistry /\ InitWorkspace /\ InitTrees /\ InitPanels

SpecTree == InitTree /\ [][NextTree]_vars

(***************************************************************************)
(* The orchestrator under the handlers App passes to TileRenderer.  A      *)
(* handler is called with the ids of panes and tabs of the workspace, or   *)
(* with an id the workspace does not hold (the UI racing with itself).     *)
(***************************************************************************)
Paths == {"/a.ts", "/b.ts"}

Positions == {"center", "left", "right", "top", "bottom"}

\* an id no pane and no tab carries
BogusId == SwapPlaceholder - 1

Range(f) == {f[x] : x \in DOMAIN f}

LeafIdsOf(layout) == Range(getAllLeafIds(layout))

PaneIds ==
    LeafIdsOf(workspace.layout) \cup DOMAIN workspace.openFiles
        \cup DOMAIN workspace.terminalPanes \cup {BogusId}

\* the tabs the pane shows, and an id that is no tab of it
EditorTabIds(paneId) ==
    (IF HasKey(workspace.openFiles, paneId)
     THEN {t.id : t \in Range(workspace.openFiles[paneId].tabs)}
     ELSE {}) \cup {BogusId}

TerminalTabIds(paneId) ==
    (IF HasKey(workspace.terminalPanes, paneId)
     THEN {t.id : t \in Range(workspace.terminalPanes[paneId].tabs)}
     ELSE {}) \cup {BogusId}

\* a handler call: the pane it names (the target pane of a move or a drop),
\* the source pane and the tab of a move or a drop, its direction, position or
\* path, and whether the pane named was a leaf of the layout and the active pane
Call(name, paneId, fromId, tabId, how, pinned) ==
    [op |-> name, paneId |-> paneId, fromId |-> fromId, tabId |-> tabId, how |-> how,
     pinned |-> pinned,
     found |-> existsInTile(workspace.layout, paneId),
     active |-> workspace.activePaneId = paneId,
     shown |-> /\ name = "handleFileSelect"
               /\ HasKey(workspace.openFiles, paneId)
               /\ PathIndex(workspace.openFiles[paneId].tabs, how) # 0]

\* the handler ran: its updater's result is the workspace, within the ids left
Updated(w, call) ==
    /\ calls < MaxCalls
    /\ w.uuid <= MaxUuid + 1
    /\ workspace' = w
    /\ wlast' = call
    /\ calls' = calls + 1

\* the handler was called by something other than a drop on a pane
Handled(w, call) ==
    /\ Updated(w, call)
    /\ dropped' = NoDrop

FileSelect(path, pinned) ==
    Handled(handleFileSelect(workspace, path, pinned),
            Call("handleFileSelect", FileTargetPane(workspace), EmptyId, EmptyId, path, pinned))

SelectEditorTab(paneId, tabId) ==
    Handled(handleSelectEditorTab(workspace, paneId, tabId),
            Call("handleSelectEditorTab", paneId, EmptyId, tabId, "", FALSE))

CloseEditorTab(paneId, tabId) ==
    Handled(handleCloseEditorTab(workspace, paneId, tabId),
            Call("handleCloseEditorTab", paneId, EmptyId, tabId, "", FALSE))

CreateTerminalTab(paneId) ==
    Handled(handleCreateTerminalTab(workspace, paneId),
            Call("handleCreateTerminalTab", paneId, EmptyId, EmptyId, "", FALSE))

SelectTerminalTab(paneId, tabId) ==
    Handled(handleSelectTerminalTab(workspace, paneId, tabId),
            Call("handleSelectTerminalTab", paneId, EmptyId, tabId, "", FALSE))

CloseTerminalTab(paneId, tabId) ==
    Handled(handleCloseTerminalTab(workspace, paneId, tabId),
            Call("handleCloseTerminalTab", paneId, EmptyId, tabId, "", FALSE))

MoveTerminalTab(fromPaneId, tabId, targetPaneId) ==
    Handled(handleMoveTerminalTab(workspace, fromPaneId, tabId, targetPaneId),
            Call("handleMoveTerminalTab", targetPaneId, fromPaneId, tabId, "", FALSE))

SplitPane(paneId, direction) ==
    Handled(handleSplitPane(workspace, paneId, direction),
            Call("handleSplitPane", paneId, EmptyId, EmptyId, direction, FALSE))

ClosePane(paneId) ==
    Handled(handleClosePane(workspace, paneId),
            Call("handleClosePane", paneId, EmptyId, EmptyId, "", FALSE))

SwapPanes(fromId, toId) ==
    Handled(handleSwapPanes(workspace, fromId, toId),
            Call("handleSwapPanes", toId, fromId, EmptyId, "", FALSE))

DropSplit(fromId, targetId, direction) ==
    Handled(handleDropSplit(workspace, fromId, targetId, direction),
            Call("handleDropSplit", targetId, fromId, EmptyId, direction, FALSE))

DropEditorTab(fromPaneId, tabId, targetPaneId, position) ==
    Handled(handleDropEditorTab(workspace, fromPaneId, tabId, targetPaneId, position),
            Call("handleDropEditorTab", targetPaneId, fromPaneId, tabId, position, FALSE))

MoveEditorTab(fromPaneId, tabId, targetPaneId) ==
    Handled(handleMoveEditorTab(workspace, fromPaneId, tabId, targetPaneId),
            Call("handleMoveEditorTab", targetPaneId, fromPaneId, tabId, "", FALSE))

FocusPane(paneId) ==
    Handled(handleFocusPane(workspace, paneId),
            Call("handleFocusPane", paneId, EmptyId, EmptyId, "", FALSE))

NextWs ==
    \/ \E path \in Paths, pinned \in BOOLEAN : FileSelect(path, pinned)
          /\ UNCHANGED <<managerVars, tileVars, appVars>>
    \/ \E paneId \in PaneIds : \E tabId \in EditorTabIds(paneId) : SelectEditorTab(paneId, tabId)
          /\ UNCHANGED <<managerVars, tileVars, appVars>>
    \/ \E paneId \in PaneIds : \E tabId \in EditorTabIds(paneId) : CloseEditorTab(paneId, tabId)
          /\ UNCHANGED <<managerVars, tileVars, appVars>>
    \/ \E paneId \in PaneIds : CreateTerminalTab(paneId)
          /\ UNCHANGED <<managerVars, tileVars, appVars>>
    \/ \E paneId \in PaneIds : \E tabId \in TerminalTabIds(paneId) : SelectTerminalTab(paneId, tabId)
          /\ UNCHANGED <<managerVars, tileVars, appVars>>
    \/ \E paneId \in PaneIds : \E tabId \in TerminalTabIds(paneId) : CloseTerminalTab(paneId, tabId)
          /\ UNCHANGED <<managerVars, tileVars, appVars>>
    \/ \E from \in PaneIds, to \in PaneIds : \E tabId \in TerminalTabIds(from) :
          MoveTerminalTab(from, tabId, to)
          /\ UNCHANGED <<managerVars, tileVars, appVars>>
    \/ \E paneId \in PaneIds, d \in Directions : SplitPane(paneId, d)
          /\ UNCHANGED <<managerVars, tileVars, appVars>>
    \/ \E paneId \in PaneIds : ClosePane(paneId)
          /\ UNCHANGED <<managerVars, tileVars, appVars>>
    \/ \E from \in PaneIds, to \in PaneIds : SwapPanes(from, to)
          /\ UNCHANGED <<managerVars, tileVars, appVars>>
    \/ \E from \in PaneIds, to \in PaneIds, d \in Directions : DropSplit(from, to, d)
          /\ UNCHANGED <<managerVars, tileVars, appVars>>
    \/ \E from \in PaneIds, to \in PaneIds, pos \in Positions : \E tabId \in EditorTabIds(from) :
          DropEditorTab(from, tabId, to, pos)
          /\ UNCHANGED <<managerVars, tileVars, appVars>>
    \/ \E from \in PaneIds, to \in PaneIds : \E tabId \in EditorTabIds(from) :
          MoveEditorTab(from, tabId, to)
          /\ UNCHANGED <<managerVars, tileVars, appVars>>
    \/ \E paneId \in PaneIds : FocusPane(paneId)
          /\ UNCHANGED <<managerVars, tileVars, appVars>>

SpecWs == InitReg /\ [][NextWs]_vars

(***************************************************************************)
(* Drops on the panes TileRenderer renders.  A drag starts at an editor    *)
(* tab, a terminal tab or a pane header, or brings nothing of the          *)
(* application's; the drop lands on a leaf of the layout, whose onDrop     *)
(* picks the App handler to call.                                          *)
(***************************************************************************)
TabIdsOf(pane) == {t.id : t \in Range(pane.tabs)}

\* dataTransfer as the onDragStart handlers fill it
DataTransfers(w) ==
    UNION {{[editorTab |-> [paneId |-> p, tabId |-> t], terminalTab |-> NoData,
             plain |-> EmptyId] : t \in TabIdsOf(w.openFiles[p])} : p \in DOMAIN w.openFiles}
    \cup
    UNION {{[editorTab |-> NoData, terminalTab |-> [paneId |-> p, tabId |-> t],
             plain |-> EmptyId] : t \in TabIdsOf(w.terminalPanes[p])} :
              p \in DOMAIN w.terminalPanes}
    \cup
    {[editorTab |-> NoData, terminalTab |-> NoData, plain |-> p] :
        p \in LeafIdsOf(w.layout) \cup {EmptyId}}

parseEditorTabDropPayload(raw) ==
    IF raw = NoData THEN Null
    ELSE IF raw.paneId = EmptyId \/ raw.tabId = EmptyId THEN Null
    ELSE [paneId |-> raw.paneId, tabId |-> raw.tabId]

parseTerminalTabDropPayload(raw) ==
    IF raw = NoData THEN Null
    ELSE IF raw.paneId = EmptyId \/ raw.tabId = EmptyId THEN Null
    ELSE [paneId |-> raw.paneId, tabId |-> raw.tabId]

\* the prop the drop calls, with the source pane, the tab and the position or
\* direction it passes besides targetId
PropCall(name, fromId, tabId, how) == [op |-> name, fromId |-> fromId, tabId |-> tabId, how |-> how]

NoPropCall == PropCall("none", EmptyId, EmptyId, "")

\* every position swaps
handlePaneDropAction_SwapOnly(targetId, fromId, position) ==
    PropCall("onSwapPanes", fromId, EmptyId, "")

handlePaneDropAction(targetId, fromId, position) ==
    IF position = "center" THEN PropCall("onSwapPanes", fromId, EmptyId, "")
    ELSE IF position \in {"left", "right"} THEN PropCall("onDropSplit", fromId, EmptyId, "horizontal")
    ELSE PropCall("onDropSplit", fromId, EmptyId, "vertical")

handlePaneDrop(layout, targetId, data, position) ==
    LET tabPayload == parseEditorTabDropPayload(data.editorTab)
        terminalTabPayload == parseTerminalTabDropPayload(data.terminalTab)
        targetNode == findInTile(layout, targetId)
        fromId == data.plain
    IN  IF tabPayload # Null
        THEN IF targetNode.type = "editor"
             THEN PropCall("onMoveEditorTab", tabPayload.paneId, tabPayload.tabId, "")
             ELSE IF targetNode.type = "terminal"
             THEN PropCall("onDropEditorTab", tabPayload.paneId, tabPayload.tabId, position)
             ELSE NoPropCall
        ELSE IF terminalTabPayload # Null
        THEN IF targetNode.type = "terminal"
             THEN PropCall("onMoveTerminalTab", terminalTabPayload.paneId,
                       terminalTabPayload.tabId, "")
             ELSE NoPropCall
        ELSE IF fromId = EmptyId \/ fromId = targetId THEN NoPropCall
        ELSE handlePaneDropAction(targetId, fromId, position)

\* onDrop of a rendered pane, with the props App binds to its handlers
PaneDrop(targetId, data, position) ==
    LET c == handlePaneDrop(workspace.layout, targetId, data, position)
    IN  /\ \/ /\ c.op = "none"
              /\ UNCHANGED <<workspace, wlast, calls>>
           \/ /\ c.op = "onMoveEditorTab"
              /\ Updated(handleMoveEditorTab(workspace, c.fromId, c.tabId, targetId),
                         Call("handleMoveEditorTab", targetId, c.fromId, c.tabId, "", FALSE))
           \/ /\ c.op = "onDropEditorTab"
              /\ Updated(handleDropEditorTab(workspace, c.fromId, c.tabId, targetId, c.how),
                         Call("handleDropEditorTab", targetId, c.fromId, c.tabId, c.how, FALSE))
           \/ /\ c.op = "onMoveTerminalTab"
              /\ Updated(handleMoveTerminalTab(workspace, c.fromId, c.tabId, targetId),
                         Call("handleMoveTerminalTab", targetId, c.fromId, c.tabId, "", FALSE))
           \/ /\ c.op = "onSwapPanes"
              /\ Updated(handleSwapPanes(workspace, c.fromId, targetId),
                         Call("handleSwapPanes", targetId, c.fromId, EmptyId, "", FALSE))
           \/ /\ c.op = "onDropSplit"
              /\ Updated(handleDropSplit(workspace, c.fromId, targetId, c.how),
                         Call("handleDropSplit", targetId, c.fromId, EmptyId, c.how, FALSE))
        /\ dropped' = [data |-> data, targetId |-> targetId, position |-> position]

NextDrop ==
    \/ \E path \in Paths, pinned \in BOOLEAN : FileSelect(path, pinned)
          /\ calls < MaxDropCalls
          /\ UNCHANGED <<managerVars, tileVars, appVars>>
    \/ \E paneId \in LeafIdsOf(workspace.layout) : CreateTerminalTab(paneId)
          /\ calls < MaxDropCalls
          /\ UNCHANGED <<managerVars, tileVars, appVars>>
    \/ \E paneId \in LeafIdsOf(workspace.layout), d \in Directions : SplitPane(paneId, d)
          /\ calls < MaxDropCalls
          /\ UNCHANGED <<managerVars, tileVars, appVars>>
    \/ \E targetId \in LeafIdsOf(workspace.layout), data \in DataTransfers(workspace),
          position \in Positions : PaneDrop(targetId, data, position)
          /\ calls < MaxDropCalls
          /\ UNCHANGED <<managerVars, tileVars, appVars>>

SpecDrop == InitReg /\ [][NextDrop]_vars

(***************************************************************************)
(* The client and the server together: TileRenderer keeps one              *)
(* TerminalPanel mounted for every terminal of the workspace; the panel's  *)
(* effect opens a WebSocket with ?session=<terminal id>, which the server  *)
(* hands to attach, and the effect's cleanup closes that WebSocket.        *)
(***************************************************************************)
TerminalIdsOf(w) == {t.id : t \in Range(w.terminals)}

\* useEffect of TerminalPanel: new WebSocket(wsUrl), then wss.on('connection')
PanelMount(tid, e) ==
    /\ tid \in TerminalIdsOf(workspace)
    /\ tid \notin DOMAIN panelWs
    /\ Attach(tid, e)
    /\ panelWs' = With(panelWs, tid, e)
    /\ UNCHANGED <<wsVars, tileVars, closedTerms>>

\* the cleanup of the effect, for a terminal the workspace no longer lists:
\* ws.close(), then the server's ws.on('close')
PanelUnmount(tid) ==
    /\ tid \in DOMAIN panelWs
    /\ tid \notin TerminalIdsOf(workspace)
    /\ WsClose(panelWs[tid])
    /\ panelWs' = Without(panelWs, {tid})
    /\ UNCHANGED <<wsVars, tileVars, closedTerms>>

AppClosePane(paneId) ==
    /\ ClosePane(paneId)
    /\ closedTerms' = closedTerms \cup (TerminalIdsOf(workspace) \ TerminalIdsOf(workspace'))
    /\ UNCHANGED <<managerVars, tileVars, panelWs>>

NextApp ==
    \/ \E paneId \in PaneIds, d \in Directions : SplitPane(paneId, d)
          /\ UNCHANGED <<managerVars, tileVars, appVars>>
    \/ \E paneId \in PaneIds : CreateTerminalTab(paneId)
          /\ UNCHANGED <<managerVars, tileVars, appVars>>
    \/ \E paneId \in PaneIds : AppClosePane(paneId)
    \/ \E tid \in TerminalIdsOf(workspace), e \in Endpoints : PanelMount(tid, e)
    \/ \E tid \in DOMAIN panelWs : PanelUnmount(tid)
    \/ Sweep
          /\ UNCHANGED <<wsVars, tileVars, appVars>>
    \/ \E d \in {1, ORPHAN_TIMEOUT} : Tick(d)
          /\ UNCHANGED <<wsVars, tileVars, appVars>>

SpecApp == InitReg /\ [][NextApp]_vars

(***************************************************************************)
(* Claims about the session registry.                                      *)
(***************************************************************************)
\* the endpoint is the one bound to the session its handlers name
IsBound(e) == Has(wsSession[e]) /\ sessions[wsSession[e]].ws = e

\* C1: attach on an id the registry does not hold spawns exactly one process;
\* attach on an id it holds spawns none, keeps the session's process and binds
\* the new endpoint; an endpoint that is no longer bound is sent no output.
C1_AttachSpawnsOnce ==
    [][/\ last'.op = "attach" =>
            IF Has(last'.sid)
            THEN /\ nextPid' = nextPid
                 /\ ptys' = ptys
                 /\ sessions'[last'.sid].pty = sessions[last'.sid].pty
                 /\ sessions'[last'.sid].ws = last'.ws
            ELSE /\ nextPid' = nextPid + 1
                 /\ \A p \in Pids : ptys'[p] # ptys[p] <=> p = nextPid
                 /\ ptys[nextPid].state = "none" /\ ptys'[nextPid].state = "running"
                 /\ sessions'[last'.sid].pty = nextPid
                 /\ sessions'[last'.sid].ws = last'.ws
       /\ \A e \in Endpoints :
            wsSession[e] # NoSession /\ ~IsBound(e) => wsSent'[e] = wsSent[e]
      ]_vars

\* C1 witness: a session re-attached after its first endpoint closed, still on
\* the one process spawned, with output delivered to the new endpoint only.
C1_Witness ==
    /\ nextPid = 2
    /\ wsSession[1] = 1 /\ wsSession[2] = 1
    /\ wsState[1] = "closed"
    /\ Has(1) /\ sessions[1].ws = 2 /\ sessions[1].pty = 1
    /\ wsSent[1] = 0 /\ wsSent[2] = 1
    /\ last.op = "data"

\* C2: sweep removes a session exactly when it has no bound endpoint and more
\* than ORPHAN_TIMEOUT has passed since its lastActivity; it kills the process
\* of each session it removes and leaves every other session as it was.
C2_SweepExact ==
    [][last'.op = "sweep" =>
         \A sid \in DOMAIN sessions :
            /\ sid \notin DOMAIN sessions' <=>
                  (sessions[sid].ws = NoWs /\ now - sessions[sid].lastActivity > ORPHAN_TIMEOUT)
            /\ IF sid \in DOMAIN sessions'
               THEN sessions'[sid] = sessions[sid]
                    /\ ptys'[sessions[sid].pty] = ptys[sessions[sid].pty]
               ELSE ptys'[sessions[sid].pty].state = "killed"
      ]_vars

\* C2 witness: a sweep that removed an orphan and kept a session whose
\* lastActivity is just as old but which has an endpoint bound.
C2_Witness ==
    /\ last.op = "sweep"
    /\ last.removed # {}
    /\ \E sid \in DOMAIN sessions :
          sessions[sid].ws # NoWs /\ now - sessions[sid].lastActivity > ORPHAN_TIMEOUT

\* the step is the message handler running for a registered session
MessageStep == last'.op = "message" /\ Has(last'.sid)

\* the frame is written to the process and nothing is resized
WrittenVerbatim(sid, f) ==
    LET p == sessions[sid].pty IN
    /\ ptys'[p].input = Append(ptys[p].input, f)
    /\ ptys'[p].cols = ptys[p].cols /\ ptys'[p].rows = ptys[p].rows
    /\ sessions'[sid].cols = sessions[sid].cols /\ sessions'[sid].rows = sessions[sid].rows

\* C5: the JSON text of {type:"resize", cols:c, rows:r}, c and r positive
\* integers, sets the stored extent to (c, r), resizes the process and is not
\* written as input; a frame starting with '{' that is not JSON is written
\* verbatim and leaves the extent unchanged.
C5_ResizeApplied ==
    [][MessageStep =>
         LET f == last'.frame
             sid == last'.sid
             p == sessions[sid].pty
             c == Prop(f, "cols")
             r == Prop(f, "rows")
         IN /\ (/\ f.head = "{" /\ f.json
                /\ Prop(f, "type") = Str("resize")
                /\ IsPositiveInteger(c) /\ IsPositiveInteger(r)) =>
                    /\ sessions'[sid].cols = c /\ sessions'[sid].rows = r
                    /\ ptys'[p].cols = c /\ ptys'[p].rows = r
                    /\ ptys'[p].input = ptys[p].input
            /\ (f.head = "{" /\ ~f.json) => WrittenVerbatim(sid, f)
      ]_vars

\* C5 witness: the resize frame was applied: the stored extent is (120, 40)
\* and the process has been written nothing.
C5_Witness ==
    /\ last.op = "message" /\ last.frame = ResizeFrame /\ Has(last.sid)
    /\ sessions[last.sid].cols = Num(120, 1) /\ sessions[last.sid].rows = Num(40, 1)
    /\ ptys[sessions[last.sid].pty].cols = Num(120, 1)
    /\ ptys[sessions[last.sid].pty].input = <<>>

\* C5 witness, second case: "{not json" reached the process as input.
C5_Witness_Verbatim ==
    /\ last.op = "message" /\ last.frame = BraceFrame /\ Has(last.sid)
    /\ ptys[sessions[last.sid].pty].input = <<BraceFrame>>

\* C6: a '{'-prefixed JSON frame whose type is not "resize", or whose cols or
\* rows is not a positive integer, is not applied as a resize: the extent and
\* the process size stay as they were and the frame is written as input.
C6_InvalidControlForwarded ==
    [][MessageStep =>
         LET f == last'.frame IN
            (/\ f.head = "{" /\ f.json
             /\ ~(/\ Prop(f, "type") = Str("resize")
                  /\ IsPositiveInteger(Prop(f, "cols"))
                  /\ IsPositiveInteger(Prop(f, "rows")))) =>
                WrittenVerbatim(last'.sid, f)
      ]_vars

\* C7: when the bound endpoint closes or errors, lastActivity becomes the time
\* of the detachment, and no session is swept before more than ORPHAN_TIMEOUT
\* has passed since its endpoint detached.
C7_DetachStartsCountdown ==
    [][/\ (last'.op \in {"close", "error"} /\ IsBound(last'.ws)) =>
             sessions'[last'.sid].lastActivity = now
       /\ last'.op = "sweep" =>
             \A sid \in last'.removed :
                detachedAt[sid] >= 0 /\ now - detachedAt[sid] >= ORPHAN_TIMEOUT
      ]_vars

\* C7, the sweep alone: no session is swept before more than ORPHAN_TIMEOUT
\* has passed since its endpoint detached.
C7_NoEarlySweep ==
    [][last'.op = "sweep" =>
         \A sid \in last'.removed : now - detachedAt[sid] >= ORPHAN_TIMEOUT]_vars

\* C8: a session leaves the registry only through killSession, sweep, destroy
\* or the exit event of its own process; close, error, attach and message
\* neither remove a session nor kill or replace its process; after the bound
\* endpoint closes the session is registered with a null endpoint.
C8_SessionPersists ==
    [][/\ \A sid \in DOMAIN sessions :
            sid \notin DOMAIN sessions' =>
               \/ last'.op \in {"killSession", "sweep", "destroy"}
               \/ last'.op = "exit" /\ last'.pid = sessions[sid].pty
       /\ last'.op \in {"close", "error", "attach", "message"} =>
            \A sid \in DOMAIN sessions :
               /\ sid \in DOMAIN sessions'
               /\ sessions'[sid].pty = sessions[sid].pty
               /\ ptys'[sessions[sid].pty].state = ptys[sessions[sid].pty].state
       /\ (last'.op = "close" /\ IsBound(last'.ws)) =>
            last'.sid \in DOMAIN sessions' /\ sessions'[last'.sid].ws = NoWs
      ]_vars

\* C8 without the stale exit event: what holds of close, error, attach and
\* message, and of a removal by any process registered under the id.
C8_TransportNeverKills ==
    [][/\ \A sid \in DOMAIN sessions :
            sid \notin DOMAIN sessions' =>
               last'.op \in {"killSession", "sweep", "destroy", "exit"}
       /\ last'.op \in {"close", "error", "attach", "message"} =>
            \A sid \in DOMAIN sessions :
               /\ sid \in DOMAIN sessions'
               /\ sessions'[sid].pty = sessions[sid].pty
               /\ ptys'[sessions[sid].pty].state = ptys[sessions[sid].pty].state
       /\ (last'.op = "close" /\ IsBound(last'.ws)) =>
            last'.sid \in DOMAIN sessions' /\ sessions'[last'.sid].ws = NoWs
      ]_vars

(***************************************************************************)
(* Claims about the layout tree.                                           *)
(***************************************************************************)
\* the last call was splitAtTile on a leaf id the tree held
SplitOfPresentLeaf ==
    /\ tileCall.op = "splitAtTile"
    /\ existsInTile(tileCall.layout, tileCall.id)
    /\ ~existsInTile(tileCall.layout, leafId(tileCall.node))

\* C4: for every tree t, every leaf id x present in t, every new leaf n whose
\* id does not occur in t and both directions, removing n's id from
\* splitAtTile(t, x, n, dir) gives back a tree structurally equal to t.
C4_SplitRemoveInverse ==
    SplitOfPresentLeaf => removeFromTile(tile, leafId(tileCall.node)) = tileCall.layout

\* a leaf inside a tree of two leaves was split, and the split is undone by the removal
C4_Witness ==
    /\ SplitOfPresentLeaf
    /\ countLeaves(tileCall.layout) = 2
    /\ countLeaves(tile) = 3
    /\ tile # tileCall.layout
    /\ removeFromTile(tile, leafId(tileCall.node)) = tileCall.layout

(***************************************************************************)
(* Claims about the orchestrator.                                          *)
(***************************************************************************)
\* the unpinned tabs of an editor pane
PreviewTabs(pane) == {i \in 1..Len(pane.tabs) : ~pane.tabs[i].pinned}

\* C3: in every reachable workspace state every editor pane holds at most one
\* unpinned (preview) tab.
C3_OnePreviewPerPane ==
    \A paneId \in DOMAIN workspace.openFiles :
        Cardinality(PreviewTabs(workspace.openFiles[paneId])) <= 1

\* the step is a call of handleClosePane
ClosePaneStep == calls' # calls /\ wlast'.op = "handleClosePane"

IsLeafWithId(node, id) == node.type # "split" /\ leafId(node) = id

\* new is old with the split above leaf id replaced by the leaf's sibling subtree
RECURSIVE SiblingPromoted(_, _, _)
SiblingPromoted(old, new, id) ==
    /\ old.type = "split"
    /\ \/ IsLeafWithId(old.children[1], id) /\ new = old.children[2]
       \/ IsLeafWithId(old.children[2], id) /\ new = old.children[1]
       \/ /\ new.type = "split"
          /\ new.direction = old.direction
          /\ \/ /\ new.children[2] = old.children[2]
                /\ SiblingPromoted(old.children[1], new.children[1], id)
             \/ /\ new.children[1] = old.children[1]
                /\ SiblingPromoted(old.children[2], new.children[2], id)

\* the tab state of pane id is gone from w2 and every other pane's is as in w
TabStateDeleted(w, w2, id) ==
    LET node == findInTile(w.layout, id)
        closedTabs == IF HasKey(w.terminalPanes, id)
                      THEN {t.id : t \in Range(w.terminalPanes[id].tabs)}
                      ELSE {}
    IN  /\ ~HasKey(w2.openFiles, id)
        /\ ~HasKey(w2.terminalPanes, id)
        /\ \A k \in DOMAIN w.openFiles \ {id} :
              HasKey(w2.openFiles, k) /\ w2.openFiles[k] = w.openFiles[k]
        /\ \A k \in DOMAIN w.terminalPanes \ {id} :
              HasKey(w2.terminalPanes, k) /\ w2.terminalPanes[k] = w.terminalPanes[k]
        /\ w2.terminals = IF node.type = "terminal"
                          THEN SelectSeq(w.terminals, LAMBDA t : t.id \notin closedTabs)
                          ELSE w.terminals

\* C9: close pane on the only leaf of the layout leaves the whole workspace
\* state unchanged; on any other existing leaf it removes exactly that leaf,
\* the sibling subtree taking the place of the parent split, deletes the
\* pane's tab state, and, if the closed pane was the active pane, makes the
\* first leaf of the new tree in left-to-right order the active pane.
C9_ClosePane ==
    [][ClosePaneStep /\ existsInTile(workspace.layout, wlast'.paneId) =>
          IF countLeaves(workspace.layout) = 1
          THEN workspace' = workspace
          ELSE /\ SiblingPromoted(workspace.layout, workspace'.layout, wlast'.paneId)
               /\ getAllLeafIds(workspace'.layout) =
                      SelectSeq(getAllLeafIds(workspace.layout), LAMBDA x : x # wlast'.paneId)
               /\ TabStateDeleted(workspace, workspace', wlast'.paneId)
               /\ workspace.activePaneId = wlast'.paneId =>
                      workspace'.activePaneId = getAllLeafIds(workspace'.layout)[1]]_vars

\* the active pane of a layout of three leaves was closed: two leaves are
\* left and the first of them is the active pane
C9_Witness ==
    /\ wlast.op = "handleClosePane"
    /\ wlast.found
    /\ wlast.active
    /\ countLeaves(workspace.layout) = 2
    /\ ~existsInTile(workspace.layout, wlast.paneId)
    /\ workspace.activePaneId = getAllLeafIds(workspace.layout)[1]

\* close pane was called on the only leaf of the layout, which is still there
C9_Witness_OnlyLeaf ==
    /\ wlast.op = "handleClosePane"
    /\ wlast.found
    /\ countLeaves(workspace.layout) = 1
    /\ existsInTile(workspace.layout, wlast.paneId)

(***************************************************************************)
(* Claims about the client and the server together.                        *)
(***************************************************************************)
\* the terminal's pane was closed and the server has handled the close of
\* the WebSocket of its panel
CloseHandled(tid) == tid \in closedTerms /\ tid \notin DOMAIN panelWs

\* C10: when a terminal pane is closed, every terminal session whose tab lived
\* in that pane is killed: once the close has reached the server the session
\* is out of the registry and its process terminated, rather than detached
\* and left alive until the orphan sweep.
C10_ClosedPaneKillsSessions ==
    \A tid \in closedTerms :
        CloseHandled(tid) =>
            /\ ~Has(tid)
            /\ \A p \in Pids : ptys[p].sid = tid => ptys[p].state # "running"

(***************************************************************************)
(* Claims about handler calls whose arguments name nothing.                *)
(***************************************************************************)
\* the step is a handler call
HandlerStep == calls' # calls

\* the pane is a leaf of the layout or has pane state
PaneExists(w, id) ==
    existsInTile(w.layout, id) \/ HasKey(w.openFiles, id) \/ HasKey(w.terminalPanes, id)

\* the tab ids of the workspace: editor tabs and terminals
AllEditorTabs(w) == UNION {Range(w.openFiles[k].tabs) : k \in DOMAIN w.openFiles}

AllTerminalTabs(w) == UNION {Range(w.terminalPanes[k].tabs) : k \in DOMAIN w.terminalPanes}

TabExists(w, id) ==
    id \in {t.id : t \in AllEditorTabs(w)} \cup {t.id : t \in AllTerminalTabs(w)}
        \cup TerminalIdsOf(w)

\* the handlers C11 names: every handler but open file
TakesIds(call) == call.op \notin {"init", "handleFileSelect"}

\* one of the pane ids or the tab id the call names does not exist in w
NamesMissingId(w, call) ==
    \/ ~PaneExists(w, call.paneId)
    \/ call.fromId # EmptyId /\ ~PaneExists(w, call.fromId)
    \/ call.tabId # EmptyId /\ ~TabExists(w, call.tabId)

\* C11: a handler (focus, split, close pane, close tab, select tab, create
\* terminal tab, move tab, drop editor tab, swap panes, drop-split) called
\* with a pane id or a tab id that does not exist in the workspace returns the
\* workspace unchanged: layout, pane maps, terminals and active pane.
C11_MissingIdNoOp ==
    [][HandlerStep /\ TakesIds(wlast') /\ NamesMissingId(workspace, wlast') =>
          workspace' = workspace]_vars

\* the handlers other than focus pane, drop-split and close pane leave the
\* workspace unchanged when an id they are given is missing
C11_MissingIdNoOp_Others ==
    [][(/\ HandlerStep /\ TakesIds(wlast') /\ NamesMissingId(workspace, wlast')
        /\ wlast'.op \notin {"handleFocusPane", "handleDropSplit", "handleClosePane"}) =>
          workspace' = workspace]_vars

(***************************************************************************)
(* Claims about close statuses and refused connections.                    *)
(***************************************************************************)
\* C12: when the process of a registered session exits, the session is removed
\* from the registry and the endpoint bound to it, if open, is closed by the
\* server with status 1000 ('Process exited'); that status is not the status
\* of a missing session id (4000), not the status of an unauthorized
\* connection (4001), and not the absence of a status that a connection lost
\* without a server close shows.
C12_ExitClosesWithStatus ==
    [][last'.op = "exit" /\ Has(last'.sid) /\ sessions[last'.sid].pty = last'.pid =>
          LET s == sessions[last'.sid] IN
          /\ ~(last'.sid \in DOMAIN sessions')
          /\ s.ws # NoWs /\ IsOpen(s.ws) =>
                /\ wsState'[s.ws] = "closing"
                /\ wsCode'[s.ws] = ProcessExited
          /\ ProcessExited \notin {MissingSessionId, Unauthorized, NoStatus}]_vars

\* the process of a session with an open endpoint has exited: the session is
\* gone and its endpoint is closing with status 1000
C12_Witness ==
    /\ last.op = "exit"
    /\ ~Has(last.sid)
    /\ \E e \in Endpoints :
          /\ wsSession[e] = last.sid
          /\ wsState[e] = "closing"
          /\ wsCode[e] = ProcessExited

\* the step is the connection handler run on endpoint e with request req
ConnectionStep(e, req) == wsState[e] = "fresh" /\ wsState'[e] # "fresh" /\ Connection(e, req)

\* the handler closed endpoint e with the status and attach was not called:
\* no session created, rebound or changed, no process spawned, e bound to none
RefusedWith(e, code) ==
    /\ wsState'[e] = "closing"
    /\ wsCode'[e] = code
    /\ last'.op # "attach"
    /\ sessions' = sessions
    /\ ptys' = ptys
    /\ nextPid' = nextPid
    /\ wsSession'[e] = NoSession
    /\ \A sid \in DOMAIN sessions' : sessions'[sid].ws # e

\* C13: a connection whose request carries neither the signed cookie nor the
\* token is closed with 4001; one that carries either but no session
\* parameter is closed with 4000; in both cases attach is not called, so no
\* session is created, rebound or changed.
C13_RefusedBeforeBinding ==
    [][\A e \in Endpoints, req \in Requests :
          ConnectionStep(e, req) =>
              /\ (req.cookie # signToken(Token) /\ req.token # Token) =>
                    RefusedWith(e, Unauthorized)
              /\ ((req.cookie = signToken(Token) \/ req.token = Token)
                    /\ req.session = NoSession) =>
                    RefusedWith(e, MissingSessionId)]_vars

\* a session is registered and a later connection was refused as unauthorized
C13_Witness ==
    /\ last.op = "refuse"
    /\ wsCode[last.ws] = Unauthorized
    /\ DOMAIN sessions # {}

\* a session is registered and a later connection was refused for its missing
\* session parameter
C13_Witness_Missing ==
    /\ last.op = "refuse"
    /\ wsCode[last.ws] = MissingSessionId
    /\ DOMAIN sessions # {}

(***************************************************************************)
(* Claims about swapTiles, getAllLeafIds and removeFromTile.               *)
(***************************************************************************)
\* C14: swapping the same two ids a second time gives back the tree the first
\* swap was applied to: swapTiles(swapTiles(t, a, b), a, b) = t.
C14_SwapTwice ==
    tileCall.op = "swapTiles" =>
        swapTiles(tile, tileCall.id, leafId(tileCall.node)) = tileCall.layout

\* two different leaves of a tree of three leaves were swapped, and the second
\* swap undoes the first
C14_Witness ==
    /\ tileCall.op = "swapTiles"
    /\ countLeaves(tileCall.layout) = 3
    /\ tile # tileCall.layout
    /\ swapTiles(tile, tileCall.id, leafId(tileCall.node)) = tileCall.layout

\* the nodes of a tree: the tree and the nodes of its children
RECURSIVE Subtrees(_)
Subtrees(layout) ==
    IF layout.type = "split"
    THEN {layout} \cup Subtrees(layout.children[1]) \cup Subtrees(layout.children[2])
    ELSE {layout}

\* the number of places of the sequence that hold x
Occurrences(seq, x) == Cardinality({i \in 1..Len(seq) : seq[i] = x})

\* C15: getAllLeafIds lists the leaf ids left to right, depth first (the ids of
\* a split are the ids of its first child followed by the ids of its second,
\* the ids of a leaf are its one id), every leaf id exactly once and no other
\* id, and countLeaves is the length of the list.
C15_LeafIdsInOrder ==
    \A s \in Subtrees(tile) :
        LET ids == getAllLeafIds(s) IN
        /\ countLeaves(s) = Len(ids)
        /\ s.type = "split" =>
              ids = getAllLeafIds(s.children[1]) \o getAllLeafIds(s.children[2])
        /\ s.type # "split" => ids = <<leafId(s)>>
        /\ \A id \in TreeIds : Occurrences(ids, id) = IF existsInTile(s, id) THEN 1 ELSE 0

\* a tree of three leaves whose first child is a split: its ids are the two of
\* the first child, then the one of the second
C15_Witness ==
    /\ tile.type = "split"
    /\ tile.children[1].type = "split"
    /\ countLeaves(tile) = 3
    /\ getAllLeafIds(tile) = <<leafId(tile.children[1].children[1]),
                               leafId(tile.children[1].children[2]),
                               leafId(tile.children[2])>>

\* C16: removeFromTile gives null on a single leaf that carries the id; on a
\* tree that holds the id below a split, at any depth, the split above the leaf
\* is replaced by the leaf's sibling subtree itself and the rest of the tree is
\* kept; on a tree that does not hold the id it gives a tree equal to its input.
C16_RemoveFromTile ==
    tileCall.op = "removeFromTile" =>
        LET t == tileCall.layout
            id == tileCall.id
            result == tileCall.node
        IN  /\ IsLeafWithId(t, id) => result = Null
            /\ ~existsInTile(t, id) => result = t
            /\ t.type = "split" /\ existsInTile(t, id) => SiblingPromoted(t, result, id)

\* a leaf two levels down a tree of three leaves was removed: the result is a
\* tree of two leaves
C16_Witness ==
    /\ tileCall.op = "removeFromTile"
    /\ countLeaves(tileCall.layout) = 3
    /\ existsInTile(tileCall.layout, tileCall.id)
    /\ ~IsLeafWithId(tileCall.layout.children[1], tileCall.id)
    /\ ~IsLeafWithId(tileCall.layout.children[2], tileCall.id)
    /\ tileCall.node # Null
    /\ countLeaves(tileCall.node) = 2

\* removeFromTile was called on a single leaf that carries the id
C16_Witness_SingleLeaf ==
    /\ tileCall.op = "removeFromTile"
    /\ IsLeafWithId(tileCall.layout, tileCall.id)
    /\ tileCall.node = Null

\* removeFromTile was called with an id the tree does not hold
C16_Witness_Absent ==
    /\ tileCall.op = "removeFromTile"
    /\ ~existsInTile(tileCall.layout, tileCall.id)
    /\ tileCall.node = tileCall.layout

(***************************************************************************)
(* Claims about moving and dropping tabs.                                  *)
(***************************************************************************)
\* the number of tabs of the panes of a pane map
RECURSIVE TabCount(_)
TabCount(m) ==
    IF DOMAIN m = {} THEN 0
    ELSE LET k == CHOOSE x \in DOMAIN m : TRUE
         IN  Len(m[k].tabs) + TabCount(Drop(m, k))

\* the number of editor tabs and terminal tabs of the workspace
TotalTabs(w) == TabCount(w.openFiles) + TabCount(w.terminalPanes)

MoveOps == {"handleMoveEditorTab", "handleMoveTerminalTab"}

\* the kind of pane the move handler works on, and that kind's pane map
MoveKind(call) == IF call.op = "handleMoveEditorTab" THEN "editor" ELSE "terminal"

MovePanes(w, call) == IF call.op = "handleMoveEditorTab" THEN w.openFiles ELSE w.terminalPanes

\* the call moves a tab of its source pane to another pane of the same kind,
\* both leaves of the layout with pane state
MovesBetweenPanes(w, call) ==
    /\ call.fromId # call.paneId
    /\ findInTile(w.layout, call.fromId).type = MoveKind(call)
    /\ findInTile(w.layout, call.paneId).type = MoveKind(call)
    /\ HasKey(MovePanes(w, call), call.fromId)
    /\ HasKey(MovePanes(w, call), call.paneId)
    /\ TabIndex(MovePanes(w, call)[call.fromId].tabs, call.tabId) # 0

\* no leaf and no pane state in w2 that w does not have
NoPaneCreated(w, w2) ==
    /\ LeafIdsOf(w2.layout) \subseteq LeafIdsOf(w.layout)
    /\ DOMAIN w2.openFiles \subseteq DOMAIN w.openFiles
    /\ DOMAIN w2.terminalPanes \subseteq DOMAIN w.terminalPanes

\* C17: moving a tab between two different existing panes of the same kind
\* takes it out of the source pane's tabs and makes it the active tab of the
\* destination pane, creates no pane and keeps the number of tabs of the
\* workspace; a source pane left without tabs loses its leaf and its pane
\* state; with the source as destination the workspace is unchanged.
C17_MoveTab ==
    [][HandlerStep /\ wlast'.op \in MoveOps =>
          LET call == wlast'
              src == MovePanes(workspace, call)
              dst == MovePanes(workspace', call)
          IN  /\ call.fromId = call.paneId => workspace' = workspace
              /\ MovesBetweenPanes(workspace, call) =>
                    /\ HasKey(dst, call.fromId) =>
                          TabIndex(dst[call.fromId].tabs, call.tabId) = 0
                    /\ HasKey(dst, call.paneId)
                    /\ TabIndex(dst[call.paneId].tabs, call.tabId) # 0
                    /\ dst[call.paneId].activeTabId = call.tabId
                    /\ NoPaneCreated(workspace, workspace')
                    /\ TotalTabs(workspace') = TotalTabs(workspace)
                    /\ Len(src[call.fromId].tabs) = 1 =>
                          /\ ~existsInTile(workspace'.layout, call.fromId)
                          /\ ~HasKey(dst, call.fromId)]_vars

\* the call drops a tab of an editor pane on a terminal pane of the layout
DropsOnTerminal(w, call) ==
    /\ call.op = "handleDropEditorTab"
    /\ findInTile(w.layout, call.paneId).type = "terminal"
    /\ HasKey(w.openFiles, call.fromId)
    /\ TabIndex(w.openFiles[call.fromId].tabs, call.tabId) # 0

\* the split a drop position stands for
SplitOfPosition(position) ==
    CASE position = "left" -> [direction |-> "horizontal", placement |-> "before"]
      [] position = "right" -> [direction |-> "horizontal", placement |-> "after"]
      [] position = "top" -> [direction |-> "vertical", placement |-> "before"]
      [] position = "bottom" -> [direction |-> "vertical", placement |-> "after"]
      [] position = "center" -> [direction |-> "horizontal", placement |-> "after"]

\* the layout holds a split of the target leaf and the new leaf, in the
\* direction and the order of the position
Adjacent(layout, target, new, position) ==
    \E s \in Subtrees(layout) :
        /\ s.type = "split"
        /\ s.direction = SplitOfPosition(position).direction
        /\ s.children = IF SplitOfPosition(position).placement = "before"
                        THEN <<new, target>>
                        ELSE <<target, new>>

\* C18: an editor tab dropped on a terminal pane gives one new editor pane,
\* in a split with that terminal pane (left: horizontal before, right:
\* horizontal after, top: vertical before, bottom: vertical after, center:
\* horizontal after), whose only tab is the dropped file, pinned; the terminal
\* panes keep their tabs, the tab is gone from its source pane, and the number
\* of editor tabs is as before.
C18_DropOnTerminal ==
    [][HandlerStep /\ DropsOnTerminal(workspace, wlast') =>
          LET call == wlast'
              source == workspace.openFiles[call.fromId]
              dragged == source.tabs[TabIndex(source.tabs, call.tabId)]
              new == LeafIdsOf(workspace'.layout) \ LeafIdsOf(workspace.layout)
          IN  /\ Cardinality(new) = 1
              /\ \A n \in new :
                    /\ ~HasKey(workspace.openFiles, n)
                    /\ HasKey(workspace'.openFiles, n)
                    /\ Len(workspace'.openFiles[n].tabs) = 1
                    /\ workspace'.openFiles[n].tabs[1].path = dragged.path
                    /\ workspace'.openFiles[n].tabs[1].pinned
                    /\ Adjacent(workspace'.layout, Terminal(call.paneId), Editor(n), call.how)
              /\ workspace'.terminalPanes = workspace.terminalPanes
              /\ \A k \in DOMAIN workspace'.openFiles :
                    TabIndex(workspace'.openFiles[k].tabs, call.tabId) = 0
              /\ IF Len(source.tabs) = 1
                 THEN ~HasKey(workspace'.openFiles, call.fromId)
                 ELSE workspace'.openFiles[call.fromId].tabs =
                          TabsWithout(source.tabs, call.tabId)
              /\ TabCount(workspace'.openFiles) = TabCount(workspace.openFiles)]_vars

\* a tab was dropped on the top of a terminal pane: the active pane is a new
\* editor pane above that terminal pane, with one pinned tab
C18_Witness ==
    /\ wlast.op = "handleDropEditorTab"
    /\ wlast.how = "top"
    /\ HasKey(workspace.terminalPanes, wlast.paneId)
    /\ HasKey(workspace.openFiles, workspace.activePaneId)
    /\ Len(workspace.openFiles[workspace.activePaneId].tabs) = 1
    /\ workspace.openFiles[workspace.activePaneId].tabs[1].pinned
    /\ ~HasKey(workspace.openFiles, wlast.fromId)
    /\ Adjacent(workspace.layout, Terminal(wlast.paneId), Editor(workspace.activePaneId), "top")

(***************************************************************************)
(* Claims about opening a file.                                            *)
(***************************************************************************)
\* the step opens a file in an editor pane the workspace already has
OpensInPane ==
    /\ HandlerStep
    /\ wlast'.op = "handleFileSelect"
    /\ wlast'.paneId # EmptyId
    /\ HasKey(workspace.openFiles, wlast'.paneId)

\* the places of the tabs that show the path
PlacesOf(tabs, path) == {i \in 1..Len(tabs) : tabs[i].path = path}

\* C19: in the target editor pane, a path that is not open, opened without
\* pinning, takes the place of the file of a preview tab of the pane (the tab
\* list keeps its length) and a preview tab is added only when the pane has
\* none; a path that is not open, opened with pinning, is appended as one
\* pinned tab; a path that is open is given no new tab: its tab becomes the
\* active one, pinned if pinning was asked for.
C19_OpenFileTabs ==
    [][OpensInPane =>
          LET path == wlast'.how
              pinned == wlast'.pinned
              tabs == workspace.openFiles[wlast'.paneId].tabs
              after == workspace'.openFiles[wlast'.paneId]
              tab == [id |-> after.activeTabId, path |-> path, pinned |-> pinned]
          IN  IF PlacesOf(tabs, path) # {}
              THEN \E i \in PlacesOf(tabs, path) :
                      /\ after.tabs = [tabs EXCEPT ![i].pinned = @ \/ pinned]
                      /\ after.activeTabId = tabs[i].id
              ELSE IF pinned
              THEN /\ after.tabs = Append(tabs, tab)
                   /\ TabIndex(tabs, tab.id) = 0
              ELSE IF PreviewTabs(workspace.openFiles[wlast'.paneId]) # {}
              THEN \E i \in PreviewTabs(workspace.openFiles[wlast'.paneId]) :
                      /\ after.tabs = [tabs EXCEPT ![i].path = path]
                      /\ after.activeTabId = tabs[i].id
              ELSE /\ after.tabs = Append(tabs, tab)
                   /\ TabIndex(tabs, tab.id) = 0]_vars

\* /b.ts was opened without pinning in a pane whose preview tab showed another
\* file: the pane still has one tab, a preview tab of /b.ts
C19_Witness ==
    /\ wlast.op = "handleFileSelect"
    /\ wlast.how = "/b.ts"
    /\ ~wlast.pinned
    /\ wlast.found
    /\ ~wlast.shown
    /\ HasKey(workspace.openFiles, wlast.paneId)
    /\ Len(workspace.openFiles[wlast.paneId].tabs) = 1
    /\ workspace.openFiles[wlast.paneId].tabs[1] =
           [id |-> workspace.openFiles[wlast.paneId].activeTabId, path |-> "/b.ts",
            pinned |-> FALSE]

\* a file was opened pinned in a pane that showed another file: two tabs
C19_Witness_Pinned ==
    /\ wlast.op = "handleFileSelect"
    /\ wlast.pinned
    /\ wlast.found
    /\ ~wlast.shown
    /\ HasKey(workspace.openFiles, wlast.paneId)
    /\ Len(workspace.openFiles[wlast.paneId].tabs) = 2
    /\ workspace.openFiles[wlast.paneId].tabs[2].path = wlast.how
    /\ workspace.openFiles[wlast.paneId].tabs[2].pinned

\* the step opens a file
OpensFile == HandlerStep /\ wlast'.op = "handleFileSelect"

\* the editor leaves of the layout, as places of its left-to-right list of ids
EditorPlaces(layout) ==
    {i \in 1..Len(getAllLeafIds(layout)) :
        findInTile(layout, getAllLeafIds(layout)[i]).type = "editor"}

\* pane id is the active pane of w and its active tab shows the path
ReceivedIn(w, id, path) ==
    /\ w.activePaneId = id
    /\ HasKey(w.openFiles, id)
    /\ \E i \in PlacesOf(w.openFiles[id].tabs, path) :
          w.openFiles[id].tabs[i].id = w.openFiles[id].activeTabId

\* the step put the file in the active editor pane, else in the first editor
\* pane, else in a new editor pane split off after the active pane, and made
\* that pane the active pane
FileWentToTarget ==
    LET w == workspace
        path == wlast'.how
        ids == getAllLeafIds(w.layout)
        new == LeafIdsOf(workspace'.layout) \ LeafIdsOf(w.layout)
    IN  IF findInTile(w.layout, w.activePaneId).type = "editor"
        THEN /\ workspace'.layout = w.layout
             /\ ReceivedIn(workspace', w.activePaneId, path)
        ELSE IF EditorPlaces(w.layout) # {}
        THEN /\ workspace'.layout = w.layout
             /\ \E i \in EditorPlaces(w.layout) :
                   /\ \A j \in EditorPlaces(w.layout) : i <= j
                   /\ ReceivedIn(workspace', ids[i], path)
        ELSE /\ Cardinality(new) = 1
             /\ \A n \in new :
                   /\ Adjacent(workspace'.layout, findInTile(w.layout, w.activePaneId),
                               Editor(n), "right")
                   /\ ReceivedIn(workspace', n, path)

\* C20: the file goes to the active pane when that is an editor pane; else to
\* the first editor pane in left-to-right leaf order when the layout has one;
\* else the active pane is split horizontally and the file goes to a new
\* editor pane placed after it; the pane that received the file is the active
\* pane afterwards.
C20_OpenFileTarget == [][OpensFile => FileWentToTarget]_vars

\* opening a file targets as C20 says whenever the active pane is a leaf of
\* the layout
C20_OpenFileTarget_ActiveLeaf ==
    [][OpensFile /\ existsInTile(workspace.layout, workspace.activePaneId) =>
          FileWentToTarget]_vars

(***************************************************************************)
(* Claims about splitting and focusing panes and about leaf ids.           *)
(***************************************************************************)
\* the step splits a pane that is a leaf of the layout
SplitsPane == HandlerStep /\ wlast'.op = "handleSplitPane" /\ wlast'.found

\* the leaf ids of w2's layout that w's layout does not hold
NewLeaves(w, w2) == LeafIdsOf(w2.layout) \ LeafIdsOf(w.layout)

\* the layout holds a split of the given direction with old first and new second
SiblingAfter(layout, direction, old, new) ==
    \E s \in Subtrees(layout) : s = SplitNode(direction, old, new)

\* the file of the pane's active tab (of its first tab when no tab is active)
ActiveFile(pane) ==
    IF TabIndex(pane.tabs, pane.activeTabId) # 0
    THEN pane.tabs[TabIndex(pane.tabs, pane.activeTabId)].path
    ELSE pane.tabs[1].path

\* C21: splitting a terminal pane adds one new terminal leaf as the sibling
\* after it, whose pane holds one terminal session that did not exist and that
\* is appended to the terminals list, and the new pane is active; splitting an
\* editor pane adds one new editor leaf whose only tab is pinned and shows the
\* file of the source pane's active tab, and the terminals list and the
\* terminal panes are as before.
C21_SplitPane ==
    [][SplitsPane =>
          LET w == workspace
              w2 == workspace'
              paneId == wlast'.paneId
              node == findInTile(w.layout, paneId)
          IN  /\ Cardinality(NewLeaves(w, w2)) = 1
              /\ countLeaves(w2.layout) = countLeaves(w.layout) + 1
              /\ \A n \in NewLeaves(w, w2) :
                    /\ w2.activePaneId = n
                    /\ IF node.type = "terminal"
                       THEN /\ SiblingAfter(w2.layout, wlast'.how, node, Terminal(n))
                            /\ HasKey(w2.terminalPanes, n)
                            /\ Len(w2.terminalPanes[n].tabs) = 1
                            /\ w2.terminalPanes[n].tabs[1].id \notin TerminalIdsOf(w)
                            /\ w2.terminals = Append(w.terminals, w2.terminalPanes[n].tabs[1])
                            /\ w2.openFiles = w.openFiles
                       ELSE /\ SiblingAfter(w2.layout, wlast'.how, node, Editor(n))
                            /\ HasKey(w2.openFiles, n)
                            /\ Len(w2.openFiles[n].tabs) = 1
                            /\ w2.openFiles[n].tabs[1].pinned
                            /\ w2.openFiles[n].tabs[1].path = ActiveFile(w.openFiles[paneId])
                            /\ w2.terminals = w.terminals
                            /\ w2.terminalPanes = w.terminalPanes]_vars

\* a terminal pane was split: two terminal panes, two terminals, the new pane active
C21_Witness ==
    /\ wlast.op = "handleSplitPane"
    /\ wlast.found
    /\ calls = 1
    /\ Len(workspace.terminals) = 2
    /\ HasKey(workspace.terminalPanes, workspace.activePaneId)
    /\ workspace.activePaneId # wlast.paneId
    /\ SiblingAfter(workspace.layout, wlast.how, Terminal(wlast.paneId),
                    Terminal(workspace.activePaneId))

\* an editor pane was split: the new pane is active and shows one pinned tab
C21_Witness_Editor ==
    /\ wlast.op = "handleSplitPane"
    /\ wlast.found
    /\ HasKey(workspace.openFiles, wlast.paneId)
    /\ HasKey(workspace.openFiles, workspace.activePaneId)
    /\ workspace.activePaneId # wlast.paneId
    /\ SiblingAfter(workspace.layout, wlast.how, Editor(wlast.paneId),
                    Editor(workspace.activePaneId))

\* C22: in every state the handlers of the orchestrator reach, no two leaves
\* of the layout carry the same id (the list of leaf ids names every leaf and
\* holds no id twice).
C22_LeafIdsUnique ==
    LET ids == getAllLeafIds(workspace.layout)
    IN  /\ Len(ids) = countLeaves(workspace.layout)
        /\ \A i, j \in 1..Len(ids) : ids[i] = ids[j] => i = j

\* a pane was dropped beside another pane of a layout of three leaves
C22_Witness ==
    /\ wlast.op = "handleDropSplit"
    /\ wlast.fromId # wlast.paneId
    /\ wlast.found
    /\ countLeaves(workspace.layout) = 3
    /\ \E s \in Subtrees(workspace.layout) :
          /\ s.type = "split"
          /\ s.direction = wlast.how
          /\ IsLeafWithId(s.children[1], wlast.paneId)
          /\ IsLeafWithId(s.children[2], wlast.fromId)

(***************************************************************************)
(* Claims about process output, the sweep and killSession.                 *)
(***************************************************************************)
\* the step is a chunk of output of a process whose session is registered with
\* endpoint e bound and open
DeliveredTo(e) ==
    /\ last'.op = "data"
    /\ Has(ptys[last'.pid].sid)
    /\ sessions[ptys[last'.pid].sid].ws = e
    /\ wsState[e] = "open"

\* C23: a chunk of output goes to the endpoint bound to the session if that
\* endpoint is open, and to no endpoint otherwise; no other step sends output,
\* so output made while no endpoint is bound or while the bound endpoint is not
\* open is not kept and an endpoint that attaches later does not get it.
C23_OutputDiscarded ==
    [][\A e \in Endpoints :
          wsSent'[e] = IF DeliveredTo(e) THEN wsSent[e] + 1 ELSE wsSent[e]]_vars

\* output was made while the session had no endpoint, and none was sent
C23_Witness ==
    /\ last.op = "data"
    /\ Has(last.sid)
    /\ sessions[last.sid].ws = NoWs
    /\ \A e \in Endpoints : wsSent[e] = 0

\* output was made while the bound endpoint was closing, and none was sent
C23_Witness_Closing ==
    /\ last.op = "data"
    /\ Has(last.sid)
    /\ sessions[last.sid].ws # NoWs
    /\ wsState[sessions[last.sid].ws] = "closing"
    /\ \A e \in Endpoints : wsSent[e] = 0

\* the instants of the model
Instants == {p * ORPHAN_TIMEOUT + j : p \in 0..MaxPeriods, j \in 0..MaxJitter}

\* the session has no endpoint, its last activity was at instant t, and the
\* clock of the model runs past t + ORPHAN_TIMEOUT
OrphanSince(sid, t) ==
    /\ Has(sid)
    /\ sessions[sid].ws = NoWs
    /\ sessions[sid].lastActivity = t
    /\ t + ORPHAN_TIMEOUT < MaxTime

\* C24: a session whose endpoint has detached is in the end out of the
\* registry, unless an endpoint attaches to it or an inbound frame renews its
\* last activity, as long as the sweep timer keeps firing.
C24_OrphanSwept ==
    \A sid \in SessionIds, t \in Instants :
        OrphanSince(sid, t) ~>
            \/ ~Has(sid)
            \/ sessions[sid].ws # NoWs
            \/ sessions[sid].lastActivity # t

\* the sweep took a session out at the last instant of the model
C24_Witness ==
    /\ last.op = "sweep"
    /\ last.removed # {}
    /\ now = MaxTime
    /\ \A p \in Pids : ptys[p].sid \in last.removed => ptys[p].state = "killed"

\* C25: the first attach for a session id spawns the process in the cwd of the
\* connection request when the request gives one, in the manager's directory
\* otherwise, 80 columns by 24 rows; an attach to a registered session spawns
\* nothing and leaves every process as it is.
C25_SpawnCwd ==
    [][\A e \in Endpoints, req \in Requests :
          ConnectionStep(e, req) /\ last'.op = "attach" =>
              IF Has(req.session)
              THEN ptys' = ptys
              ELSE /\ ptys'[last'.pid].cwd =
                          IF req.cwd # Absent THEN req.cwd ELSE ProjectRoot
                   /\ ptys'[last'.pid].cols = Num(DefaultCols, 1)
                   /\ ptys'[last'.pid].rows = Num(DefaultRows, 1)]_vars

\* the cwd of a request is never the directory a process runs in: every
\* process is spawned in the manager's directory, 80 by 24
C25_SpawnInProjectRoot ==
    [][last'.op = "attach" =>
          IF Has(last'.sid)
          THEN ptys' = ptys
          ELSE /\ ptys'[last'.pid].cwd = ProjectRoot
               /\ ptys'[last'.pid].cols = Num(DefaultCols, 1)
               /\ ptys'[last'.pid].rows = Num(DefaultRows, 1)]_vars

\* C26: killSession on a registered id returns true, kills the process and
\* takes the session out of the registry in the same step, before the process
\* has exited, leaving every other session as it is; on an id that is not
\* registered it returns false and changes nothing.
C26_KillSession ==
    [][last'.op = "killSession" =>
          IF Has(last'.sid)
          THEN /\ last'.result
               /\ sessions' = [k \in DOMAIN sessions \ {last'.sid} |-> sessions[k]]
               /\ ptys[sessions[last'.sid].pty].state = "running" =>
                     ptys'[sessions[last'.sid].pty].state = "killed"
               /\ \A p \in Pids : p # sessions[last'.sid].pty => ptys'[p] = ptys[p]
          ELSE /\ ~last'.result
               /\ UNCHANGED regVars]_vars

\* killSession returned true: the session is out of the registry and its
\* process is killed and has not exited yet
C26_Witness ==
    /\ last.op = "killSession"
    /\ last.result
    /\ ~Has(last.sid)
    /\ \E p \in Pids : ptys[p].sid = last.sid /\ ptys[p].state = "killed"

\* killSession returned false
C26_Witness_Missing ==
    /\ last.op = "killSession"
    /\ ~last.result
    /\ DOMAIN sessions # {}

(***************************************************************************)
(* Claims about the frame of swapTiles and splitAtTileWithPlacement.       *)
(***************************************************************************)
\* new has the shape and the directions of old, nodeA where old has the leaf
\* idB, nodeB where old has the leaf idA, and old's leaf everywhere else
RECURSIVE Exchanged(_, _, _, _, _, _)
Exchanged(old, new, idA, nodeA, idB, nodeB) ==
    IF old.type = "split"
    THEN /\ new.type = "split"
         /\ new.direction = old.direction
         /\ Exchanged(old.children[1], new.children[1], idA, nodeA, idB, nodeB)
         /\ Exchanged(old.children[2], new.children[2], idA, nodeA, idB, nodeB)
    ELSE IF leafId(old) = idA THEN new = nodeB
    ELSE IF leafId(old) = idB THEN new = nodeA
    ELSE new = old

\* C27: swapTiles(t, a, b) with both ids present gives a tree of the shape and
\* the split directions of t in which the leaves a and b have changed places
\* and every other leaf is where it was; with an id absent it gives t.
C27_SwapFrame ==
    tileCall.op = "swapTiles" =>
        LET t == tileCall.layout
            idA == tileCall.id
            idB == leafId(tileCall.node)
        IN  IF existsInTile(t, idA) /\ existsInTile(t, idB)
            THEN Exchanged(t, tile, idA, findInTile(t, idA), idB, findInTile(t, idB))
            ELSE tile = t

\* a terminal leaf and an editor leaf at different depths of a tree of three
\* leaves were swapped
C27_Witness ==
    /\ tileCall.op = "swapTiles"
    /\ countLeaves(tileCall.layout) = 3
    /\ existsInTile(tileCall.layout, tileCall.id)
    /\ existsInTile(tileCall.layout, leafId(tileCall.node))
    /\ findInTile(tileCall.layout, tileCall.id).type
           # findInTile(tileCall.layout, leafId(tileCall.node)).type
    /\ \/ IsLeafWithId(tileCall.layout.children[1], tileCall.id)
       \/ IsLeafWithId(tileCall.layout.children[2], tileCall.id)
    /\ ~IsLeafWithId(tileCall.layout.children[1], leafId(tileCall.node))
    /\ ~IsLeafWithId(tileCall.layout.children[2], leafId(tileCall.node))
    /\ tile # tileCall.layout

\* swapTiles was called with an id the tree does not hold
C27_Witness_Absent ==
    /\ tileCall.op = "swapTiles"
    /\ existsInTile(tileCall.layout, tileCall.id)
    /\ ~existsInTile(tileCall.layout, leafId(tileCall.node))
    /\ tile = tileCall.layout


\* new is old with the leaf targetId replaced by splitNode and every other
\* node, at any depth, as it was
RECURSIVE OnlyLeafReplaced(_, _, _, _)
OnlyLeafReplaced(old, new, targetId, splitNode) ==
    IF old.type = "split"
    THEN /\ new.type = "split"
         /\ new.direction = old.direction
         /\ OnlyLeafReplaced(old.children[1], new.children[1], targetId, splitNode)
         /\ OnlyLeafReplaced(old.children[2], new.children[2], targetId, splitNode)
    ELSE IF leafId(old) = targetId THEN new = splitNode ELSE new = old

SplitsTile == tileCall.op \in {"splitAtTile", "splitAtTileWithPlacement"}

\* C28: splitAtTileWithPlacement replaces exactly the leaf carrying targetId by
\* a split of the given direction whose children are [newLeaf, target] for
\* placement 'before' and [target, newLeaf] for 'after', which is what
\* splitAtTile always uses; every other node of the tree is unchanged.
C28_SplitAtTile ==
    (SplitsTile /\ existsInTile(tileCall.layout, tileCall.id)) =>
        LET t == tileCall.layout
            target == findInTile(t, tileCall.id)
            before == tileCall.op = "splitAtTileWithPlacement" /\ tileCall.placement = "before"
            children == IF before THEN <<tileCall.node, target>> ELSE <<target, tileCall.node>>
        IN  OnlyLeafReplaced(t, tile, tileCall.id,
                [type |-> "split", direction |-> tileCall.direction, children |-> children])

\* a leaf below the root of a two-leaf tree was split with the new leaf before it
C28_Witness ==
    /\ tileCall.op = "splitAtTileWithPlacement"
    /\ tileCall.placement = "before"
    /\ tileCall.layout.type = "split"
    /\ existsInTile(tileCall.layout, tileCall.id)
    /\ countLeaves(tile) = 3
    /\ tileCall.direction # tileCall.layout.direction

\* splitAtTile split a leaf below the root
C28_Witness_After ==
    /\ tileCall.op = "splitAtTile"
    /\ tileCall.layout.type = "split"
    /\ existsInTile(tileCall.layout, tileCall.id)
    /\ countLeaves(tile) = 3

\* C29: splitAtTileWithPlacement called with a targetId that matches no leaf
\* behaves as if the target were a single terminal leaf with that id: the
\* returned tree contains a split whose two children are that terminal leaf
\* and newLeaf.
C29_AbsentTarget ==
    (SplitsTile /\ ~existsInTile(tileCall.layout, tileCall.id)) =>
        \E s \in Subtrees(tile) :
            /\ s.type = "split"
            /\ s.direction = tileCall.direction
            /\ s.children \in {<<Terminal(tileCall.id), tileCall.node>>,
                               <<tileCall.node, Terminal(tileCall.id)>>}

\* what the code returns for a targetId that matches no leaf: the tree it was given
C29_AbsentTargetKeepsTree ==
    (SplitsTile /\ ~existsInTile(tileCall.layout, tileCall.id)) => tile = tileCall.layout


(***************************************************************************)
(* Claims about focusing a pane.                                           *)
(***************************************************************************)
FocusesPane == HandlerStep /\ wlast'.op = "handleFocusPane"

\* C30: focus pane sets the workspace's activePaneId to the given pane id and
\* changes nothing else: the layout, both pane maps with their tab lists and
\* active tab ids, the terminals list and the cwd are as before.
C30_FocusPane ==
    [][FocusesPane =>
          /\ workspace'.activePaneId = wlast'.paneId
          /\ workspace'.layout = workspace.layout
          /\ workspace'.openFiles = workspace.openFiles
          /\ workspace'.terminalPanes = workspace.terminalPanes
          /\ workspace'.terminals = workspace.terminals
          /\ workspace'.cwd = workspace.cwd
          /\ workspace' = [workspace EXCEPT !.activePaneId = wlast'.paneId]]_vars

\* the focus went from an editor pane to a terminal pane of a workspace that
\* has both
C30_Witness ==
    /\ wlast.op = "handleFocusPane"
    /\ wlast.found
    /\ ~wlast.active
    /\ workspace.activePaneId = wlast.paneId
    /\ HasKey(workspace.terminalPanes, wlast.paneId)
    /\ workspace.openFiles # <<>>

\* the pane focused is no leaf of the layout
C30_Witness_NoLeaf ==
    /\ wlast.op = "handleFocusPane"
    /\ ~wlast.found
    /\ workspace.activePaneId = wlast.paneId

(***************************************************************************)
(* Claims about drops on panes.                                            *)
(***************************************************************************)
\* the step is a drop on a pane
DropStep == dropped' # NoDrop

\* the step called the one handler named, for the target of the drop
DropCalled(name, fromId, tabId, how, w) ==
    /\ calls' = calls + 1
    /\ wlast'.op = name
    /\ wlast'.paneId = dropped'.targetId
    /\ wlast'.fromId = fromId
    /\ wlast'.tabId = tabId
    /\ wlast'.how = how
    /\ workspace' = w

DropCalledNothing == calls' = calls /\ workspace' = workspace /\ wlast' = wlast

\* C31: a drop onto a pane triggers at most one handler, chosen by payload kind
\* and target kind: editor tab on editor pane, move-editor-tab; editor tab on
\* terminal pane, drop-editor-tab with the drop position; terminal tab on
\* terminal pane, move-terminal-tab; terminal tab on editor pane, nothing; a
\* pane header on a different pane, swap for the centre and drop-split for an
\* edge; a pane on itself, nothing.
C31_DropDispatch ==
    [][DropStep =>
          LET d == dropped'
              to == d.targetId
              targetKind == findInTile(workspace.layout, to).type
              tab == IF d.data.editorTab # NoData THEN d.data.editorTab ELSE d.data.terminalTab
          IN  /\ calls' \in {calls, calls + 1}
              /\ IF d.data.editorTab # NoData /\ targetKind = "editor"
                 THEN DropCalled("handleMoveEditorTab", tab.paneId, tab.tabId, "",
                                 handleMoveEditorTab(workspace, tab.paneId, tab.tabId, to))
                 ELSE IF d.data.editorTab # NoData /\ targetKind = "terminal"
                 THEN DropCalled("handleDropEditorTab", tab.paneId, tab.tabId, d.position,
                                 handleDropEditorTab(workspace, tab.paneId, tab.tabId, to,
                                                     d.position))
                 ELSE IF d.data.terminalTab # NoData /\ targetKind = "terminal"
                 THEN DropCalled("handleMoveTerminalTab", tab.paneId, tab.tabId, "",
                                 handleMoveTerminalTab(workspace, tab.paneId, tab.tabId, to))
                 ELSE IF d.data.terminalTab # NoData /\ targetKind = "editor"
                 THEN DropCalledNothing
                 ELSE IF d.data.plain = EmptyId \/ d.data.plain = to
                 THEN DropCalledNothing
                 ELSE IF d.position = "center"
                 THEN DropCalled("handleSwapPanes", d.data.plain, EmptyId, "",
                                 handleSwapPanes(workspace, d.data.plain, to))
                 ELSE IF d.position \in {"left", "right"}
                 THEN DropCalled("handleDropSplit", d.data.plain, EmptyId, "horizontal",
                                 handleDropSplit(workspace, d.data.plain, to, "horizontal"))
                 ELSE DropCalled("handleDropSplit", d.data.plain, EmptyId, "vertical",
                                 handleDropSplit(workspace, d.data.plain, to, "vertical"))]_vars

\* a pane header was dropped on the top edge of another pane: drop-split, vertical
C31_Witness ==
    /\ dropped.data.plain \notin {EmptyId, dropped.targetId}
    /\ dropped.position = "top"
    /\ wlast.op = "handleDropSplit"
    /\ wlast.how = "vertical"
    /\ wlast.fromId = dropped.data.plain

\* an editor tab was dropped on the left of a terminal pane
C31_Witness_EditorTab ==
    /\ dropped.data.editorTab # NoData
    /\ dropped.position = "left"
    /\ wlast.op = "handleDropEditorTab"
    /\ wlast.how = "left"

\* an editor tab was dropped on another editor pane
C31_Witness_MoveEditorTab ==
    /\ dropped.data.editorTab # NoData
    /\ wlast.op = "handleMoveEditorTab"
    /\ wlast.fromId # wlast.paneId

\* a terminal tab was dropped on another terminal pane
C31_Witness_MoveTerminalTab ==
    /\ dropped.data.terminalTab # NoData
    /\ wlast.op = "handleMoveTerminalTab"
    /\ wlast.fromId # wlast.paneId

\* a terminal tab was dropped on an editor pane
C31_Witness_TerminalOnEditor ==
    /\ dropped.data.terminalTab # NoData
    /\ findInTile(workspace.layout, dropped.targetId).type = "editor"
    /\ wlast.op # "handleMoveTerminalTab"

\* a pane header was dropped on its own pane
C31_Witness_Self ==
    /\ dropped.data.plain = dropped.targetId
    /\ dropped.targetId # EmptyId

(***************************************************************************)
(* Claims about the tabs of a pane.                                        *)
(***************************************************************************)
\* the pane has a tab and its active tab is one of its tabs
PaneHasActiveTab(pane) ==
    /\ Len(pane.tabs) >= 1
    /\ TabIndex(pane.tabs, pane.activeTabId) # 0

PanesHaveActiveTabs(w) ==
    /\ \A k \in DOMAIN w.terminalPanes : PaneHasActiveTab(w.terminalPanes[k])
    /\ \A k \in DOMAIN w.openFiles : PaneHasActiveTab(w.openFiles[k])


\* the handlers that take a tab out of a pane, and the pane they take it from
TabRemovalOps ==
    {"handleCloseEditorTab", "handleCloseTerminalTab", "handleMoveTerminalTab",
     "handleMoveEditorTab", "handleDropEditorTab"}

RemovalSource(call) ==
    IF call.op \in {"handleCloseEditorTab", "handleCloseTerminalTab"}
    THEN call.paneId ELSE call.fromId

\* the pane map the handler takes the tab from
RemovalPanes(w, call) ==
    IF call.op \in {"handleCloseTerminalTab", "handleMoveTerminalTab"}
    THEN w.terminalPanes ELSE w.openFiles

\* the step is a call to take its only tab out of a pane
RemovesLastTab ==
    /\ HandlerStep
    /\ wlast'.op \in TabRemovalOps
    /\ HasKey(RemovalPanes(workspace, wlast'), RemovalSource(wlast'))
    /\ LET pane == RemovalPanes(workspace, wlast')[RemovalSource(wlast')]
       IN  Len(pane.tabs) = 1 /\ pane.tabs[1].id = wlast'.tabId

\* C32: in every reachable workspace state each pane of terminalPanes and of
\* openFiles has at least one tab and its activeTabId is the id of one of its
\* tabs: removing the last tab of a pane (by tab close, tab move or tab drop)
\* removes the pane's leaf and its map entry, unless the pane is the only
\* leaf, in which case the removal is refused and the state is unchanged.
C32_PanesKeepTabs ==
    /\ []PanesHaveActiveTabs(workspace)
    /\ [][RemovesLastTab =>
             LET src == RemovalSource(wlast')
             IN  /\ \/ workspace' = workspace
                    \/ /\ ~HasKey(RemovalPanes(workspace', wlast'), src)
                       /\ ~existsInTile(workspace'.layout, src)
                 /\ (LeafIdsOf(workspace.layout) = {src}) => workspace' = workspace
                 /\ (/\ wlast'.op \in {"handleCloseEditorTab", "handleCloseTerminalTab"}
                     /\ existsInTile(workspace.layout, src)
                     /\ LeafIdsOf(workspace.layout) # {src}) => workspace' # workspace]_vars


\* the only tab of an editor pane was closed: its leaf and its map entry are gone
C32_Witness ==
    /\ wlast.op = "handleCloseEditorTab"
    /\ wlast.found
    /\ ~HasKey(workspace.openFiles, wlast.paneId)
    /\ ~existsInTile(workspace.layout, wlast.paneId)

\* the only tab of the only pane was to be closed: nothing happened
C32_Witness_Refused ==
    /\ wlast.op = "handleCloseTerminalTab"
    /\ LeafIdsOf(workspace.layout) = {wlast.paneId}
    /\ HasKey(workspace.terminalPanes, wlast.paneId)
    /\ Len(workspace.terminalPanes[wlast.paneId].tabs) = 1
    /\ workspace.terminalPanes[wlast.paneId].tabs[1].id = wlast.tabId

\* the only tab of a terminal pane was moved to another pane
C32_Witness_Moved ==
    /\ wlast.op = "handleMoveTerminalTab"
    /\ ~existsInTile(workspace.layout, wlast.fromId)
    /\ HasKey(workspace.terminalPanes, wlast.paneId)
    /\ TabIndex(workspace.terminalPanes[wlast.paneId].tabs, wlast.tabId) # 0


\* the step took the tab out of a pane that keeps other tabs
RemovesOneOfManyTabs ==
    /\ HandlerStep
    /\ wlast'.op \in TabRemovalOps
    /\ HasKey(RemovalPanes(workspace, wlast'), RemovalSource(wlast'))
    /\ HasKey(RemovalPanes(workspace', wlast'), RemovalSource(wlast'))
    /\ LET pane == RemovalPanes(workspace, wlast')[RemovalSource(wlast')]
           left == RemovalPanes(workspace', wlast')[RemovalSource(wlast')]
       IN  /\ Len(pane.tabs) >= 2
           /\ TabIndex(pane.tabs, wlast'.tabId) # 0
           /\ TabIndex(left.tabs, wlast'.tabId) = 0

\* C33: when the active tab of a pane is removed (by tab close, tab move or tab
\* drop) and other tabs remain, the tab that stood immediately before it
\* becomes the active tab, or the new first tab if the removed tab was first;
\* when a tab that is not active is removed, the pane's active tab does not
\* change.
C33_NextActiveTab ==
    [][RemovesOneOfManyTabs =>
          LET pane == RemovalPanes(workspace, wlast')[RemovalSource(wlast')]
              left == RemovalPanes(workspace', wlast')[RemovalSource(wlast')]
              idx == TabIndex(pane.tabs, wlast'.tabId)
          IN  IF pane.activeTabId = wlast'.tabId
              THEN left.activeTabId =
                       IF idx = 1 THEN left.tabs[1].id ELSE pane.tabs[idx - 1].id
              ELSE left.activeTabId = pane.activeTabId]_vars

\* the last tab of a terminal pane of three tabs, the active one, was closed:
\* the tab before it is active, and it is not the first of the tabs left
C33_Witness ==
    /\ wlast.op = "handleCloseTerminalTab"
    /\ HasKey(workspace.terminalPanes, wlast.paneId)
    /\ LET left == workspace.terminalPanes[wlast.paneId]
       IN  /\ Len(left.tabs) = 2
           /\ TabIndex(left.tabs, wlast.tabId) = 0
           /\ left.activeTabId = left.tabs[2].id
           /\ wlast.tabId > left.activeTabId

\* the first tab of a pane was moved to another pane: the new first tab is active
C33_Witness_First ==
    /\ wlast.op = "handleMoveTerminalTab"
    /\ HasKey(workspace.terminalPanes, wlast.fromId)
    /\ HasKey(workspace.terminalPanes, wlast.paneId)
    /\ TabIndex(workspace.terminalPanes[wlast.paneId].tabs, wlast.tabId) # 0
    /\ workspace.terminalPanes[wlast.fromId].activeTabId
           = workspace.terminalPanes[wlast.fromId].tabs[1].id
    /\ wlast.tabId < workspace.terminalPanes[wlast.fromId].tabs[1].id

\* a tab that was not active was closed
C33_Witness_NotActive ==
    /\ wlast.op = "handleCloseEditorTab"
    /\ HasKey(workspace.openFiles, wlast.paneId)
    /\ TabIndex(workspace.openFiles[wlast.paneId].tabs, wlast.tabId) = 0
    /\ wlast.found
    /\ calls >= 3


(***************************************************************************)
(* Claims about events that arrive late: the exit of a process whose       *)
(* session is gone, and the close or the frames of a superseded endpoint.  *)
(***************************************************************************)
\* every running process is the process of a registered session
NoUntrackedProcess ==
    \A p \in Pids : ptys[p].state = "running" =>
        \E sid \in DOMAIN sessions : sessions[sid].pty = p

\* C34: the exit event of a process affects only the session that owned that
\* process: when a session was killed or swept and a new session was created
\* under the same id before the old process's exit event is delivered, the old
\* exit event neither removes the new session nor closes its endpoint, so no
\* live process is ever left untracked by the registry.
C34_ExitOwnSessionOnly ==
    /\ []NoUntrackedProcess
    /\ [][last'.op = "exit" =>
             \A sid \in DOMAIN sessions :
                sessions[sid].pty # last'.pid =>
                   /\ sid \in DOMAIN sessions'
                   /\ sessions'[sid] = sessions[sid]
                   /\ sessions[sid].ws # NoWs =>
                         /\ wsState'[sessions[sid].ws] = wsState[sessions[sid].ws]
                         /\ wsCode'[sessions[sid].ws] = wsCode[sessions[sid].ws]]_vars

\* the exit event of the process a session owns removes that session
C34_ExitRemovesOwner ==
    [][last'.op = "exit" =>
          \A sid \in DOMAIN sessions :
             sessions[sid].pty = last'.pid => sid \notin DOMAIN sessions']_vars


\* the endpoint attached last to the session id
LatestEndpoint(sid) == Max({e \in Endpoints : wsSession[e] = sid})

\* a session whose latest endpoint is open is bound to it
LatestOpenIsBound ==
    \A sid \in DOMAIN sessions :
        (/\ \E e \in Endpoints : wsSession[e] = sid
         /\ wsState[LatestEndpoint(sid)] = "open") =>
            sessions[sid].ws = LatestEndpoint(sid)

\* C35: a close or error event from an endpoint that is no longer the
\* session's bound endpoint does not clear the binding: for every interleaving
\* of attach, close and error events the most recently attached endpoint that
\* has not itself closed stays bound and keeps receiving output.
C35_StaleCloseKeepsBinding ==
    /\ []LatestOpenIsBound
    /\ [][/\ (/\ last'.op \in {"close", "error"}
              /\ Has(last'.sid)
              /\ ~IsBound(last'.ws)) =>
                 /\ last'.sid \in DOMAIN sessions'
                 /\ sessions'[last'.sid].ws = sessions[last'.sid].ws
          /\ (/\ last'.op = "data"
              /\ Has(last'.sid)
              /\ sessions[last'.sid].pty = last'.pid
              /\ wsState[LatestEndpoint(last'.sid)] = "open") =>
                 wsSent'[LatestEndpoint(last'.sid)] = wsSent[LatestEndpoint(last'.sid)] + 1
         ]_vars

\* the first endpoint of a session closed after a second one had attached to
\* the id: the second is still bound
C35_Witness ==
    /\ wsSession[1] = wsSession[2]
    /\ last.op = "close"
    /\ last.ws = 1
    /\ wsState[2] = "open"
    /\ Has(wsSession[2])
    /\ sessions[wsSession[2]].ws = 2

\* output went to the second endpoint after the first had closed
C35_Witness_Output ==
    /\ wsSession[1] = wsSession[2]
    /\ wsState[1] = "closed"
    /\ wsState[2] = "open"
    /\ Has(wsSession[2])
    /\ sessions[wsSession[2]].ws = 2
    /\ last.op = "data"
    /\ wsSent[2] = 1
    /\ wsSent[1] = 0

\* the event of the superseded endpoint was an error
C35_Witness_Error ==
    /\ wsSession[1] = wsSession[2]
    /\ last.op = "error"
    /\ last.ws = 1
    /\ Has(wsSession[2])
    /\ sessions[wsSession[2]].ws = 2


\* the step is a frame from an endpoint that is not the bound endpoint of the
\* session registered under the endpoint's id
SupersededMessageStep ==
    /\ last'.op = "message"
    /\ Has(last'.sid)
    /\ sessions[last'.sid].ws # last'.ws

\* C39: inbound frames are forwarded by endpoint registration and session id,
\* not by current binding: a frame arriving on an endpoint that was superseded
\* by a newer attach and is still open is written to the process of whatever
\* session currently holds that id (or applied as a resize) and refreshes that
\* session's lastActivity; it is dropped only when no session holds the id.
C39_SupersededForwarded ==
    [][/\ SupersededMessageStep =>
            LET sid == last'.sid
                p == sessions[sid].pty
            IN  /\ sessions'[sid].lastActivity = now
                /\ sessions'[sid].ws = sessions[sid].ws
                /\ IF last'.frame = ResizeFrame
                   THEN /\ ptys'[p].cols = Prop(ResizeFrame, "cols")
                        /\ ptys'[p].rows = Prop(ResizeFrame, "rows")
                        /\ sessions'[sid].cols = Prop(ResizeFrame, "cols")
                        /\ sessions'[sid].rows = Prop(ResizeFrame, "rows")
                        /\ ptys'[p].input = ptys[p].input
                   ELSE WrittenVerbatim(sid, last'.frame)
       /\ (last'.op = "message" /\ ~Has(last'.sid)) =>
            sessions' = sessions /\ ptys' = ptys
      ]_vars

\* the first endpoint sent input after a second endpoint had attached to its
\* id: the input reached the process and the activity time is the present
C39_Witness ==
    /\ last.op = "message"
    /\ last.ws = 1
    /\ last.frame = InputFrame
    /\ Has(last.sid)
    /\ sessions[last.sid].ws = 2
    /\ ptys[sessions[last.sid].pty].input = <<InputFrame>>
    /\ now > 0
    /\ sessions[last.sid].lastActivity = now

\* the first endpoint sent a resize to an id whose session was killed and
\* created again by the second endpoint: the new process is resized
C39_Witness_NewSession ==
    /\ last.op = "message"
    /\ last.ws = 1
    /\ last.frame = ResizeFrame
    /\ Has(last.sid)
    /\ sessions[last.sid].ws = 2
    /\ sessions[last.sid].pty = 2
    /\ ptys[2].cols = Prop(ResizeFrame, "cols")
    /\ ptys[1].state = "killed"

\* a frame arrived for an id no session holds
C39_Witness_Dropped ==
    /\ last.op = "message"
    /\ ~Has(last.sid)
    /\ wsState[last.ws] = "open"


(***************************************************************************)
(* Claims about what holds in every state of the workspace.                *)
(***************************************************************************)
\* the ids of the leaves of the given type
LeafIdsOfType(layout, type) == {leafId(n) : n \in {s \in Subtrees(layout) : s.type = type}}

\* C36: in every reachable workspace state the terminal leaves of the layout
\* tree are exactly the keys of terminalPanes and the editor leaves are
\* exactly the keys of openFiles: no leaf lacks pane state and no pane state
\* lacks a leaf.
C36_LeavesArePanes ==
    /\ LeafIdsOfType(workspace.layout, "terminal") = DOMAIN workspace.terminalPanes
    /\ LeafIdsOfType(workspace.layout, "editor") = DOMAIN workspace.openFiles

\* C37: in every reachable workspace state activePaneId is the id of a leaf
\* that is present in the layout tree.
C37_ActivePaneIsLeaf == existsInTile(workspace.layout, workspace.activePaneId)

\* the terminal pane tabs that carry the id
TabsWithId(w, id) ==
    {<<k, i>> \in (DOMAIN w.terminalPanes) \X (1..MaxUuid) :
        i <= Len(w.terminalPanes[k].tabs) /\ w.terminalPanes[k].tabs[i].id = id}

\* C38: in every reachable workspace state every entry of the terminals list
\* appears in the tab list of exactly one terminal pane and every terminal
\* pane tab is an entry of the terminals list.
C38_TerminalsAreTabs ==
    /\ \A t \in Range(workspace.terminals) : Cardinality(TabsWithId(workspace, t.id)) = 1
    /\ \A t \in AllTerminalTabs(workspace) : t \in Range(workspace.terminals)


\* the handler of the step was given panes that are leaves of the layout, and
\* two different ones when it takes two
GivenLeaves ==
    /\ wlast'.op # "handleFileSelect" => wlast'.found
    /\ wlast'.fromId # EmptyId =>
          existsInTile(workspace.layout, wlast'.fromId) /\ wlast'.fromId # wlast'.paneId

\* what holds of the leaves, the pane maps and the active pane: a handler
\* given leaves of the layout keeps them in step
LeafCallsKeepPanes ==
    [][(/\ HandlerStep
        /\ GivenLeaves
        /\ C36_LeavesArePanes
        /\ C37_ActivePaneIsLeaf) => (C36_LeavesArePanes' /\ C37_ActivePaneIsLeaf')]_vars


\* a terminal tab was moved into a pane that holds others, one of three terminals
C38_Witness ==
    /\ wlast.op = "handleMoveTerminalTab"
    /\ Len(workspace.terminals) = 3
    /\ HasKey(workspace.terminalPanes, wlast.paneId)
    /\ Len(workspace.terminalPanes[wlast.paneId].tabs) >= 2
    /\ TabIndex(workspace.terminalPanes[wlast.paneId].tabs, wlast.tabId) # 0

\* a terminal pane of two tabs was closed and its terminals left the list
C38_Witness_ClosePane ==
    /\ wlast.op = "handleClosePane"
    /\ calls = 4
    /\ Len(workspace.terminals) = 1
    /\ ~existsInTile(workspace.layout, wlast.paneId)

=============================================================================
